---------------------------- MODULE Spec2Model ----------------------------
(***************************************************************************)
(* A model of the natural-language command interpreter of the AI assistant *)
(* (src/src/services/aiService.ts): parseKoreanDate, parseTime,            *)
(* parseCommand, executeCommand and aiService.sendMessage, together with   *)
(* the stores it calls, and of the chat view that calls sendMessage        *)
(* (views/AIView.tsx, mounted by App.tsx).                                 *)
(*                                                                         *)
(* Text.  A JavaScript string is modelled as the sequence of its UTF-16    *)
(* code units.  Every Hangul syllable is one code unit and is written here *)
(* by its romanisation ("nae","il" is the two-character word for           *)
(* "tomorrow"); digits, the space and punctuation stand for themselves,    *)
(* and a Latin letter carries a trailing underscore ("d_"), which keeps it *)
(* apart from the romanised syllables.  String.includes, String.match,     *)
(* String.replace(/.../g) and String.trim are computed on these sequences, *)
(* character by character, as the regular expressions of the source        *)
(* prescribe.                                                              *)
(*                                                                         *)
(* Dates.  A JavaScript Date (local time) is the record                    *)
(*   [day |-> days since 2024-01-01, min |-> minute of the day,            *)
(*    ms |-> milliseconds within the minute]                               *)
(* and the Date constructor, setFullYear, setHours, setMinutes and the     *)
(* date-fns functions are computed on it with the Gregorian calendar,      *)
(* overflow included.                                                      *)
(***************************************************************************)
EXTENDS Integers, Sequences, FiniteSets, TLC

VARIABLES
    message,    \* the text handed to the function under study
    now,        \* the value new Date() yields during the call
    pc,         \* position: "input", "date", "time", "command", "idle", "sent"
    dateOut,    \* return value of parseKoreanDate(message)
    timeOut,    \* return value of parseTime(message)
    detected,   \* parseCommand's local detectedAction
    command,    \* the ParsedCommand returned by parseCommand(message)
    reply,      \* what sendMessage returned: [response, command]
    calls,      \* the store / responder calls made by the last sendMessage
    events,     \* rows of the events table, in insertion order
    todos,      \* rows of the todos table
    memos,      \* rows of the memos table
    currentView,    \* App's currentView: "AI" or "MAIN" (any other view)
    instance,       \* the number of AIView components mounted so far
    messages,       \* AIView's messages state
    inputMessage,   \* AIView's inputMessage state
    isLoading,      \* AIView's isLoading state
    requests,       \* the calls of aiService.sendMessage that have not returned
    sent            \* the number of calls of aiService.sendMessage made

viewVars == <<currentView, instance, messages, inputMessage, isLoading,
              requests, sent>>

vars == <<message, now, pc, dateOut, timeOut, detected, command, reply,
          calls, events, todos, memos, viewVars>>

\* null / undefined: of a string-valued variable, of a Date or a time record,
\* and of a string (the empty string, which JavaScript tests alike).
Null == "null"

NullRec == [null |-> TRUE]

NoTitle == <<>>

-----------------------------------------------------------------------------
(* Characters and strings *)

Digits == {"0", "1", "2", "3", "4", "5", "6", "7", "8", "9"}

IsDigit(c) == c \in Digits

\* \s of the regular expressions; the inputs studied use the plain space.
IsWs(c) == c = " "

DigitVal(c) ==
    CASE c = "0" -> 0 [] c = "1" -> 1 [] c = "2" -> 2 [] c = "3" -> 3
      [] c = "4" -> 4 [] c = "5" -> 5 [] c = "6" -> 6 [] c = "7" -> 7
      [] c = "8" -> 8 [] c = "9" -> 9

\* The character at position p, or "" past the end of the text.
At(t, p) == IF p >= 1 /\ p <= Len(t) THEN t[p] ELSE ""

\* Whether the literal lit occurs in t at position p.
Lit(t, p, lit) ==
    /\ p >= 1
    /\ p + Len(lit) - 1 <= Len(t)
    /\ \A i \in 1..Len(lit) : t[p + i - 1] = lit[i]

\* String.prototype.includes
Includes(t, kw) == \E p \in 1..Len(t) : Lit(t, p, kw)

\* String.prototype.toLowerCase: Hangul, digits and punctuation have no case;
\* the Latin letters listed are those the patterns of the source contain.
LowerChar(c) ==
    CASE c = "D_" -> "d_" [] c = "A_" -> "a_" [] c = "Y_" -> "y_"
      [] c = "S_" -> "s_" [] c = "W_" -> "w_" [] c = "E_" -> "e_"
      [] c = "K_" -> "k_"
      [] OTHER -> c

toLowerCase(t) == [i \in 1..Len(t) |-> LowerChar(t[i])]

\* \s* (greedy): the first position from p on that holds no white space.
RECURSIVE SkipWs(_, _)
SkipWs(t, p) == IF IsWs(At(t, p)) THEN SkipWs(t, p + 1) ELSE p

\* \d+ (greedy): the first position from p on that holds no digit.
RECURSIVE DigitRunEnd(_, _)
DigitRunEnd(t, p) == IF IsDigit(At(t, p)) THEN DigitRunEnd(t, p + 1) ELSE p

\* \d{1,2} (greedy) before something that is no digit: the position after it.
Digits12End(t, p) == IF IsDigit(At(t, p + 1)) THEN p + 2 ELSE p + 1

\* parseInt of the digits t[p..q-1]
RECURSIVE ParseInt(_, _, _)
ParseInt(t, p, q) ==
    IF q <= p THEN 0 ELSE 10 * ParseInt(t, p, q - 1) + DigitVal(t[q - 1])

\* The leftmost position of t in the set S of positions, 0 when S is empty.
Leftmost(S) == IF S = {} THEN 0 ELSE CHOOSE p \in S : \A q \in S : p <= q

\* String.prototype.trim
RECURSIVE TrimLeft(_)
TrimLeft(t) == IF t # <<>> /\ IsWs(Head(t)) THEN TrimLeft(Tail(t)) ELSE t

RECURSIVE TrimRight(_)
TrimRight(t) ==
    IF t # <<>> /\ IsWs(t[Len(t)]) THEN TrimRight(SubSeq(t, 1, Len(t) - 1)) ELSE t

trim(t) == TrimRight(TrimLeft(t))

-----------------------------------------------------------------------------
(* Dates: the JavaScript Date in local time, and the date-fns functions *)

IsLeap(y) == (y % 4 = 0 /\ y % 100 # 0) \/ y % 400 = 0

\* The number of leap years before year y.
LeapsBefore(y) == ((y - 1) \div 4) - ((y - 1) \div 100) + ((y - 1) \div 400)

\* The day number of 1 January of year y (2024-01-01 is day 0).
DaysBeforeYear(y) == 365 * (y - 2024) + LeapsBefore(y) - LeapsBefore(2024)

\* The number of days of year y before its month m (1..12).
DaysBeforeMonth(y, m) ==
    <<0, 31, 59, 90, 120, 151, 181, 212, 243, 273, 304, 334>>[m]
        + (IF m > 2 /\ IsLeap(y) THEN 1 ELSE 0)

DaysInMonth(y, m) ==
    IF m = 2 THEN (IF IsLeap(y) THEN 29 ELSE 28)
    ELSE IF m \in {4, 6, 9, 11} THEN 30 ELSE 31

\* The day number of the d-th day of month index m0 (0 = January) of year y,
\* as the Date constructor and the setters compute it: a month index outside
\* 0..11 carries into the year and a day outside the month into the months.
MakeDay(y, m0, d) ==
    LET yy == y + (m0 \div 12)
        mm == (m0 % 12) + 1
    IN  DaysBeforeYear(yy) + DaysBeforeMonth(yy, mm) + d - 1

\* new Date(year, monthIndex, day): local midnight of that day.
NewDate(y, m0, d) == [day |-> MakeDay(y, m0, d), min |-> 0, ms |-> 0]

RECURSIVE YearFrom(_, _)
YearFrom(day, y) == IF day >= DaysBeforeYear(y + 1) THEN YearFrom(day, y + 1) ELSE y

\* Date.prototype.getFullYear
getFullYear(d) ==
    YearFrom(d.day, 2024 + (IF d.day >= 0 THEN d.day \div 366 ELSE d.day \div 365))

RECURSIVE MonthFrom(_, _, _)
MonthFrom(doy, y, m) ==
    IF m < 12 /\ doy >= DaysBeforeMonth(y, m + 1) THEN MonthFrom(doy, y, m + 1) ELSE m

\* Date.prototype.getMonth() + 1
getMonth1(d) ==
    LET y == getFullYear(d) IN MonthFrom(d.day - DaysBeforeYear(y), y, 1)

\* Date.prototype.getDate
getDate(d) ==
    LET y == getFullYear(d)
    IN  d.day - DaysBeforeYear(y) - DaysBeforeMonth(y, getMonth1(d)) + 1

\* Date.prototype.getHours, getMinutes
getHours(d) == d.min \div 60

getMinutes(d) == d.min % 60

\* Date.prototype.getDay: 0 = Sunday .. 6 = Saturday (2024-01-01 is a Monday).
getDay(d) == (((d.day + 1) % 7) + 7) % 7

\* a < b on two Dates (the comparison of their getTime() values).
DateLess(a, b) ==
    \/ a.day < b.day
    \/ a.day = b.day /\ a.min < b.min
    \/ a.day = b.day /\ a.min = b.min /\ a.ms < b.ms

\* A day and a count of minutes from its midnight, carried into the days.
Normalised(day, minutes, ms) ==
    [day |-> day + (minutes \div 1440), min |-> minutes % 1440, ms |-> ms]

\* Date.prototype.setFullYear(y): month and day of the month are kept and
\* carried when the day does not exist in year y.
setFullYear(d, y) ==
    [d EXCEPT !.day = MakeDay(y, getMonth1(d) - 1, getDate(d))]

\* date-fns setHours, setMinutes: Date.prototype.setHours / setMinutes on a copy
setHours(d, hours) == Normalised(d.day, hours * 60 + getMinutes(d), d.ms)

setMinutes(d, minutes) == Normalised(d.day, getHours(d) * 60 + minutes, d.ms)

\* date-fns addDays, addWeeks
addDays(d, amount) == [d EXCEPT !.day = @ + amount]

addWeeks(d, amount) == addDays(d, amount * 7)

\* Mutant of nextDay: today counts when it is the weekday looked for
\* (delta < 0 in place of delta <= 0).
nextDayOrToday(d, weekday) ==
    LET delta == weekday - getDay(d)
    IN  addDays(d, IF delta < 0 THEN delta + 7 ELSE delta)

\* date-fns nextDay(date, day), behind nextMonday .. nextSunday:
\*   let delta = day - getDay(date); if (delta <= 0) delta += 7;
\*   return addDays(date, delta)
nextDay(d, weekday) ==
    LET delta == weekday - getDay(d)
    IN  addDays(d, IF delta <= 0 THEN delta + 7 ELSE delta)

-----------------------------------------------------------------------------
(* parseKoreanDate *)

W_today    == <<"o", "neul">>
W_tomorrow == <<"nae", "il">>
W_dayafter == <<"mo", "re">>

\* dayMap, in the insertion order Object.entries walks it, each name with the
\* getDay() number of the weekday its nextXxx function looks for.
dayMap ==
    << [name |-> <<"wol", "yo", "il">>,  weekday |-> 1],
       [name |-> <<"hwa", "yo", "il">>,  weekday |-> 2],
       [name |-> <<"su", "yo", "il">>,   weekday |-> 3],
       [name |-> <<"mok", "yo", "il">>,  weekday |-> 4],
       [name |-> <<"geum", "yo", "il">>, weekday |-> 5],
       [name |-> <<"to", "yo", "il">>,   weekday |-> 6],
       [name |-> <<"il", "yo", "il">>,   weekday |-> 0] >>

\* The index in dayMap of the first entry whose name the text includes, or 0.
FirstDayEntry(t) == Leftmost({i \in 1..Len(dayMap) : Includes(t, dayMap[i].name)})

\* /(\d+)\s*(il|days?)\s*(dwi|hu)/ matched at position p
DaysLaterAt(t, p) ==
    LET r == SkipWs(t, DigitRunEnd(t, p))
        u == IF Lit(t, r, <<"il">>) THEN r + 1
             ELSE IF Lit(t, r, <<"d_", "a_", "y_", "s_">>) THEN r + 4
             ELSE IF Lit(t, r, <<"d_", "a_", "y_">>) THEN r + 3
             ELSE 0
    IN  /\ IsDigit(At(t, p))
        /\ u > 0
        /\ At(t, SkipWs(t, u)) \in {"dwi", "hu"}

\* The start of the leftmost match of daysLaterMatch, or 0.
daysLaterMatch(t) == Leftmost({p \in 1..Len(t) : DaysLaterAt(t, p)})

\* /(\d+)\s*(ju|ju il|weeks?)\s*(dwi|hu)/ matched at position p
WeeksLaterAt(t, p) ==
    LET r == SkipWs(t, DigitRunEnd(t, p))
        After(u) == At(t, SkipWs(t, u)) \in {"dwi", "hu"}
    IN  /\ IsDigit(At(t, p))
        /\ \/ Lit(t, r, <<"ju">>) /\ After(r + 1)
           \/ Lit(t, r, <<"ju", "il">>) /\ After(r + 2)
           \/ Lit(t, r, <<"w_", "e_", "e_", "k_", "s_">>) /\ After(r + 5)
           \/ Lit(t, r, <<"w_", "e_", "e_", "k_">>) /\ After(r + 4)

weeksLaterMatch(t) == Leftmost({p \in 1..Len(t) : WeeksLaterAt(t, p)})

\* /(\d{1,2})\s*wol\s*(\d{1,2})\s*il/ matched at position p
MonthDayAt(t, p) ==
    LET s == SkipWs(t, SkipWs(t, Digits12End(t, p)) + 1)
    IN  /\ IsDigit(At(t, p))
        /\ At(t, SkipWs(t, Digits12End(t, p))) = "wol"
        /\ IsDigit(At(t, s))
        /\ At(t, SkipWs(t, Digits12End(t, s))) = "il"

\* The captures of that match: [month, day] as parseInt reads them.
MonthDayGroups(t, p) ==
    LET s == SkipWs(t, SkipWs(t, Digits12End(t, p)) + 1)
    IN  [month |-> ParseInt(t, p, Digits12End(t, p)),
         day   |-> ParseInt(t, s, Digits12End(t, s))]

monthDayMatch(t) == Leftmost({p \in 1..Len(t) : MonthDayAt(t, p)})

\* /(\d{4})\s*nyeon\s*(\d{1,2})\s*wol\s*(\d{1,2})\s*il/ matched at position p
FullDateAt(t, p) ==
    LET r == SkipWs(t, p + 4)
    IN  /\ \A i \in 0..3 : IsDigit(At(t, p + i))
        /\ At(t, r) = "nyeon"
        /\ MonthDayAt(t, SkipWs(t, r + 1))

fullDateMatch(t) == Leftmost({p \in 1..Len(t) : FullDateAt(t, p)})

\* Mutant of MonthDayResult: a date that has passed is not moved to the next
\* year.
MonthDayResultNoRollover(g, n) == NewDate(getFullYear(n), g.month - 1, g.day)

\* Mutant of MonthDayResult: only a day before today is moved to the next
\* year.
MonthDayResultTodayStays(g, n) ==
    LET result == NewDate(getFullYear(n), g.month - 1, g.day)
    IN  IF result.day < n.day
        THEN setFullYear(result, getFullYear(result) + 1)
        ELSE result

\* The result of the monthDayMatch branch: the month and day in the current
\* year, moved to the next year when that midnight is earlier than now.
MonthDayResult(g, n) ==
    LET result == NewDate(getFullYear(n), g.month - 1, g.day)
    IN  IF DateLess(result, n)
        THEN setFullYear(result, getFullYear(result) + 1)
        ELSE result

\* The result of the fullDateMatch branch.
FullDateResult(t, p) ==
    LET g == MonthDayGroups(t, SkipWs(t, SkipWs(t, p + 4) + 1))
    IN  NewDate(ParseInt(t, p, p + 4), g.month - 1, g.day)

\* Mutant of parseKoreanDate: "N days later" is tried before the weekdays.
parseKoreanDateDaysLaterFirst(text, n) ==
    LET lowerText == toLowerCase(text)
    IN  IF Includes(lowerText, W_today) THEN n
        ELSE IF Includes(lowerText, W_tomorrow) THEN addDays(n, 1)
        ELSE IF Includes(lowerText, W_dayafter) THEN addDays(n, 2)
        ELSE IF daysLaterMatch(lowerText) # 0
             THEN LET p == daysLaterMatch(lowerText)
                  IN  addDays(n, ParseInt(lowerText, p, DigitRunEnd(lowerText, p)))
        ELSE IF FirstDayEntry(lowerText) # 0
             THEN nextDay(n, dayMap[FirstDayEntry(lowerText)].weekday)
        ELSE IF weeksLaterMatch(lowerText) # 0
             THEN LET p == weeksLaterMatch(lowerText)
                  IN  addWeeks(n, ParseInt(lowerText, p, DigitRunEnd(lowerText, p)))
        ELSE IF monthDayMatch(lowerText) # 0
             THEN MonthDayResult(MonthDayGroups(lowerText, monthDayMatch(lowerText)), n)
        ELSE IF fullDateMatch(lowerText) # 0
             THEN FullDateResult(lowerText, fullDateMatch(lowerText))
        ELSE NullRec

\* parseKoreanDate(text), called while new Date() is n; NullRec for null.
parseKoreanDate(text, n) ==
    LET lowerText == toLowerCase(text)
    IN  IF Includes(lowerText, W_today) THEN n
        ELSE IF Includes(lowerText, W_tomorrow) THEN addDays(n, 1)
        ELSE IF Includes(lowerText, W_dayafter) THEN addDays(n, 2)
        ELSE IF FirstDayEntry(lowerText) # 0
             THEN nextDay(n, dayMap[FirstDayEntry(lowerText)].weekday)
        ELSE IF daysLaterMatch(lowerText) # 0
             THEN LET p == daysLaterMatch(lowerText)
                  IN  addDays(n, ParseInt(lowerText, p, DigitRunEnd(lowerText, p)))
        ELSE IF weeksLaterMatch(lowerText) # 0
             THEN LET p == weeksLaterMatch(lowerText)
                  IN  addWeeks(n, ParseInt(lowerText, p, DigitRunEnd(lowerText, p)))
        ELSE IF monthDayMatch(lowerText) # 0
             THEN MonthDayResult(MonthDayGroups(lowerText, monthDayMatch(lowerText)), n)
        ELSE IF fullDateMatch(lowerText) # 0
             THEN FullDateResult(lowerText, fullDateMatch(lowerText))
        ELSE NullRec

-----------------------------------------------------------------------------
(* parseTime *)

\* \s*(\d{1,2})? after the hour sign at position s: the minutes, 0 when the
\* group does not take part in the match.
MinutesAfter(t, s) ==
    LET m == SkipWs(t, s + 1)
    IN  IF IsDigit(At(t, m)) THEN ParseInt(t, m, Digits12End(t, m)) ELSE 0

\* /(o jeon|o hu)\s*(\d{1,2})\s*si\s*(\d{1,2})?\s*(bun)?/ matched at position p
AmpmAt(t, p) ==
    LET r == SkipWs(t, p + 2)
    IN  /\ Lit(t, p, <<"o", "jeon">>) \/ Lit(t, p, <<"o", "hu">>)
        /\ IsDigit(At(t, r))
        /\ At(t, SkipWs(t, Digits12End(t, r))) = "si"

ampmMatch(t) == Leftmost({p \in 1..Len(t) : AmpmAt(t, p)})

\* /(\d{1,2})\s*si\s*(\d{1,2})?\s*(bun)?/ matched at position p
TimeAt(t, p) ==
    /\ IsDigit(At(t, p))
    /\ At(t, SkipWs(t, Digits12End(t, p))) = "si"

timeMatch(t) == Leftmost({p \in 1..Len(t) : TimeAt(t, p)})

\* /(\d{1,2}):(\d{2})/ matched at position p
ColonAt(t, p) ==
    LET q == Digits12End(t, p)
    IN  /\ IsDigit(At(t, p))
        /\ At(t, q) = ":"
        /\ IsDigit(At(t, q + 1))
        /\ IsDigit(At(t, q + 2))

colonMatch(t) == Leftmost({p \in 1..Len(t) : ColonAt(t, p)})

\* Mutant of AmpmResult: 12 a.m. is not turned into hour 0.
AmpmResultNoMidnight(t, p) ==
    LET r  == SkipWs(t, p + 2)
        h  == ParseInt(t, r, Digits12End(t, r))
        pm == Lit(t, p, <<"o", "hu">>)
    IN  [hours |-> IF pm /\ h < 12 THEN h + 12 ELSE h,
         minutes |-> MinutesAfter(t, SkipWs(t, Digits12End(t, r)))]

\* The ampmMatch branch: the 12-hour value turned into a 24-hour value.
AmpmResult(t, p) ==
    LET r  == SkipWs(t, p + 2)
        h  == ParseInt(t, r, Digits12End(t, r))
        pm == Lit(t, p, <<"o", "hu">>)
        h1 == IF pm /\ h < 12 THEN h + 12 ELSE h
        h2 == IF ~pm /\ h1 = 12 THEN 0 ELSE h1
    IN  [hours |-> h2,
         minutes |-> MinutesAfter(t, SkipWs(t, Digits12End(t, r)))]

\* parseTime(text); NullRec for null.
parseTime(text) ==
    IF ampmMatch(text) # 0 THEN AmpmResult(text, ampmMatch(text))
    ELSE IF timeMatch(text) # 0
         THEN LET p == timeMatch(text)
              IN  [hours |-> ParseInt(text, p, Digits12End(text, p)),
                   minutes |-> MinutesAfter(text, SkipWs(text, Digits12End(text, p)))]
    ELSE IF colonMatch(text) # 0
         THEN LET p == colonMatch(text)
                  q == Digits12End(text, p)
              IN  [hours |-> ParseInt(text, p, q),
                   minutes |-> ParseInt(text, q + 1, q + 3)]
    ELSE NullRec

-----------------------------------------------------------------------------
(* parseCommand *)

addKeywords ==
    << <<"chu", "ga">>, <<"deung", "rok">>, <<"man", "deul">>,
       <<"saeng", "seong">>, <<"jab", "a">>, <<"neoh", "eo">> >>

deleteKeywords ==
    << <<"sak", "je">>, <<"ji", "wo">>, <<"chwi", "so">>, <<"je", "geo">> >>

listKeywords ==
    << <<"bo", "yeo">>, <<"al", "ryeo">>, <<"mwo">>, <<"jo", "hoe">> >>

eventKeywords ==
    << <<"il", "jeong">>, <<"hoe", "ui">>, <<"mi", "ting">>, <<"yak", "sok">> >>

todoKeywords ==
    << <<"hal", "il">>, <<"hal", " ", "il">>, <<"eop", "mu">>,
       <<"tae", "seu", "keu">> >>

memoKeywords == << <<"me", "mo">>, <<"no", "teu">> >>

\* Whether the text includes one of the keywords.
IncludesAny(t, keywords) == \E i \in 1..Len(keywords) : Includes(t, keywords[i])

\* Mutant of detectAction: the delete keywords are looked for before the add
\* keywords.
detectActionDeleteFirst(lowerMessage) ==
    IF IncludesAny(lowerMessage, deleteKeywords) THEN "delete"
    ELSE IF IncludesAny(lowerMessage, addKeywords) THEN "add"
    ELSE IF IncludesAny(lowerMessage, listKeywords) THEN "list"
    ELSE Null

\* The three keyword loops that set detectedAction; Null for null.
detectAction(lowerMessage) ==
    IF IncludesAny(lowerMessage, addKeywords) THEN "add"
    ELSE IF IncludesAny(lowerMessage, deleteKeywords) THEN "delete"
    ELSE IF IncludesAny(lowerMessage, listKeywords) THEN "list"
    ELSE Null

\* Mutant of detectEntity: the to-do keywords are looked for before the event
\* keywords.
detectEntityTodoFirst(lowerMessage) ==
    IF IncludesAny(lowerMessage, todoKeywords) THEN "todo"
    ELSE IF IncludesAny(lowerMessage, eventKeywords) THEN "event"
    ELSE IF IncludesAny(lowerMessage, memoKeywords) THEN "memo"
    ELSE Null

\* The if / else-if chain that sets result.entity; Null for null.
detectEntity(lowerMessage) ==
    IF IncludesAny(lowerMessage, eventKeywords) THEN "event"
    ELSE IF IncludesAny(lowerMessage, todoKeywords) THEN "todo"
    ELSE IF IncludesAny(lowerMessage, memoKeywords) THEN "memo"
    ELSE Null

IsQuote(c) == c \in {"'", "\""}

\* /['"](.+?)['"]/ matched at position p: a quote, one or more characters, and
\* the nearest quote after them.
QuotedAt(t, p) ==
    /\ IsQuote(At(t, p))
    /\ \E q \in (p + 2)..Len(t) : IsQuote(t[q])

quotedMatch(t) == Leftmost({p \in 1..Len(t) : QuotedAt(t, p)})

\* Group 1 of that match.
QuotedGroup(t, p) ==
    SubSeq(t, p + 1, Leftmost({q \in (p + 2)..Len(t) : IsQuote(t[q])}) - 1)

\* The alternatives of the three literal patterns, in the order written.
dateWords ==
    << W_today, W_tomorrow, W_dayafter,
       <<"wol", "yo", "il">>, <<"hwa", "yo", "il">>, <<"su", "yo", "il">>,
       <<"mok", "yo", "il">>, <<"geum", "yo", "il">>, <<"to", "yo", "il">>,
       <<"il", "yo", "il">> >>

stripWords ==
    << <<"il", "jeong">>, <<"hoe", "ui">>, <<"mi", "ting">>, <<"yak", "sok">>,
       <<"hal", "il">>, <<"hal", " ", "il">>, <<"me", "mo">>,
       <<"chu", "ga">>, <<"deung", "rok">>, <<"man", "deul">>,
       <<"saeng", "seong">>, <<"jab", "a">>, <<"neoh", "eo">>,
       <<"hae", "jwo">>, <<"hae", " ", "jwo">>, <<"e">> >>

\* An alternation of literals matched at p: the end of the first alternative
\* that matches there, or 0.
WordsEnd(t, p, words) ==
    LET i == Leftmost({k \in 1..Len(words) : Lit(t, p, words[k])})
    IN  IF i = 0 THEN 0 ELSE p + Len(words[i])

\* \s*\d+si(\s*\d+bun)? matched from position r0: the end of the match, or 0.
ClockEnd(t, r0) ==
    LET r == SkipWs(t, r0)
        q == DigitRunEnd(t, r)
        m == SkipWs(t, q + 1)
        e == DigitRunEnd(t, m)
    IN  IF ~(IsDigit(At(t, r)) /\ At(t, q) = "si") THEN 0
        ELSE IF IsDigit(At(t, m)) /\ At(t, e) = "bun" THEN e + 1
        ELSE q + 1

\* The position after the match of a stripping pattern at p, or 0 when the
\* pattern does not match at p.
MatchEnd(pat, t, p) ==
    CASE pat = "dateWords" -> WordsEnd(t, p, dateWords)
      [] pat = "later" ->
            \* /\d+\s*(il|ju|wol|nyeon)\s*(dwi|hu)/
            LET r == SkipWs(t, DigitRunEnd(t, p))
                v == SkipWs(t, r + 1)
            IN  IF /\ IsDigit(At(t, p))
                   /\ At(t, r) \in {"il", "ju", "wol", "nyeon"}
                   /\ At(t, v) \in {"dwi", "hu"}
                THEN v + 1 ELSE 0
      [] pat = "monthDay" ->
            \* /\d+wol\s*\d+il/
            LET q == DigitRunEnd(t, p)
                s == SkipWs(t, q + 1)
                e == DigitRunEnd(t, s)
            IN  IF /\ IsDigit(At(t, p))
                   /\ At(t, q) = "wol"
                   /\ IsDigit(At(t, s))
                   /\ At(t, e) = "il"
                THEN e + 1 ELSE 0
      [] pat = "clock" ->
            \* /(o jeon|o hu)?\s*\d+si(\s*\d+bun)?/
            IF /\ Lit(t, p, <<"o", "jeon">>) \/ Lit(t, p, <<"o", "hu">>)
               /\ ClockEnd(t, p + 2) # 0
            THEN ClockEnd(t, p + 2)
            ELSE ClockEnd(t, p)
      [] pat = "colon" ->
            \* /\d+:\d+/
            LET q == DigitRunEnd(t, p)
            IN  IF IsDigit(At(t, p)) /\ At(t, q) = ":" /\ IsDigit(At(t, q + 1))
                THEN DigitRunEnd(t, q + 1) ELSE 0
      [] pat = "keywords" -> WordsEnd(t, p, stripWords)

\* String.prototype.replace(/pat/g, ''): scanning from p, every match is
\* dropped and the scan resumes after it.
RECURSIVE ReplaceAll(_, _, _)
ReplaceAll(pat, t, p) ==
    IF p > Len(t) THEN <<>>
    ELSE IF MatchEnd(pat, t, p) > p THEN ReplaceAll(pat, t, MatchEnd(pat, t, p))
    ELSE <<t[p]>> \o ReplaceAll(pat, t, p + 1)

\* The message with date words, time expressions and keywords removed, trimmed.
StrippedTitle(msg) ==
    LET t1 == ReplaceAll("dateWords", msg, 1)
        t2 == ReplaceAll("later", t1, 1)
        t3 == ReplaceAll("monthDay", t2, 1)
        t4 == ReplaceAll("clock", t3, 1)
        t5 == ReplaceAll("colon", t4, 1)
        t6 == ReplaceAll("keywords", t5, 1)
    IN  trim(t6)

\* Mutant of extractTitle: a stripped message of two characters is a title
\* (length > 1 in place of length > 2).
extractTitleTwoCharacters(msg) ==
    IF quotedMatch(msg) # 0 THEN QuotedGroup(msg, quotedMatch(msg))
    ELSE IF Len(StrippedTitle(msg)) > 1 THEN StrippedTitle(msg)
    ELSE NoTitle

\* Mutant of extractTitle: the stripped message is preferred and the quoted
\* text is used only when the stripped message is too short.
extractTitleStrippedFirst(msg) ==
    IF Len(StrippedTitle(msg)) > 2 THEN StrippedTitle(msg)
    ELSE IF quotedMatch(msg) # 0 THEN QuotedGroup(msg, quotedMatch(msg))
    ELSE NoTitle

\* The title extraction at the end of parseCommand; NoTitle for undefined.
extractTitle(msg) ==
    IF quotedMatch(msg) # 0 THEN QuotedGroup(msg, quotedMatch(msg))
    ELSE IF Len(StrippedTitle(msg)) > 2 THEN StrippedTitle(msg)
    ELSE NoTitle

\* result.date after the date and the time parsing of parseCommand.
CommandDate(parsedDate, parsedTime) ==
    IF parsedTime # NullRec /\ parsedDate # NullRec
    THEN setMinutes(setHours(parsedDate, parsedTime.hours), parsedTime.minutes)
    ELSE parsedDate

\* result.time: the pair the template literal "H:MM" is printed from.
CommandTime(parsedDate, parsedTime) ==
    IF parsedTime # NullRec /\ parsedDate # NullRec THEN parsedTime ELSE NullRec

\* Mutant of parseCommand: a command with no entity keeps its detected action
\* (the early return without the downgrade to chat).
parseCommandNoDowngrade(msg, n) ==
    LET lowerMessage   == toLowerCase(msg)
        detectedAction == detectAction(lowerMessage)
        entity         == detectEntity(lowerMessage)
        bare(action) == [action |-> action, entity |-> Null, title |-> NoTitle,
                         date |-> NullRec, time |-> NullRec, originalMessage |-> msg]
    IN  IF detectedAction = Null THEN bare("chat")
        ELSE IF entity = Null THEN bare(detectedAction)
        ELSE [action |-> detectedAction,
              entity |-> entity,
              title  |-> extractTitle(msg),
              date   |-> CommandDate(parseKoreanDate(msg, n), parseTime(msg)),
              time   |-> CommandTime(parseKoreanDate(msg, n), parseTime(msg)),
              originalMessage |-> msg]

\* parseCommand(message), called while new Date() is n.
parseCommand(msg, n) ==
    LET lowerMessage   == toLowerCase(msg)
        detectedAction == detectAction(lowerMessage)
        entity         == detectEntity(lowerMessage)
        chat == [action |-> "chat", entity |-> Null, title |-> NoTitle,
                 date |-> NullRec, time |-> NullRec, originalMessage |-> msg]
    IN  IF detectedAction = Null THEN chat
        ELSE IF entity = Null THEN chat
        ELSE [action |-> detectedAction,
              entity |-> entity,
              title  |-> extractTitle(msg),
              date   |-> CommandDate(parseKoreanDate(msg, n), parseTime(msg)),
              time   |-> CommandTime(parseKoreanDate(msg, n), parseTime(msg)),
              originalMessage |-> msg]

-----------------------------------------------------------------------------
(* The inputs the functions are applied to *)

\* How many consecutive days new Date() ranges over, from Sunday 2026-06-28:
\* every weekday, and days before, on and after 1 July.
NowDays == 7

\* The largest N of the "N days later" and "N weeks later" inputs.
MaxCount == 3

\* The largest hour H of the "H o'clock" inputs.
MaxHour == 25

\* The decimal digits of the natural number n.
RECURSIVE Decimal(_)
Decimal(n) ==
    IF n < 10 THEN <<CHOOSE c \in Digits : DigitVal(c) = n>>
    ELSE Decimal(n \div 10) \o Decimal(n % 10)

\* Midnight sharp, half a second past midnight, and 10:30 in the morning.
NowTimes == { [min |-> 0, ms |-> 0], [min |-> 0, ms |-> 500], [min |-> 630, ms |-> 0] }

Nows ==
    { [day |-> MakeDay(2026, 5, 28) + k, min |-> t.min, ms |-> t.ms] :
        k \in 0..(NowDays - 1), t \in NowTimes }

\* Wednesday 2026-07-01 at 10:30.
FewNows == { [day |-> MakeDay(2026, 6, 1), min |-> 630, ms |-> 0] }

\* Texts with no, one or two kinds of entity keyword: schedule, to-do (with a
\* space), memo, meeting + memo, work + meeting, note + to-do, task.
EntityParts ==
    { <<>>,
      <<"il", "jeong", " ">>,
      <<"hal", " ", "il", " ">>,
      <<"me", "mo", " ">>,
      <<"hoe", "ui", " ", "me", "mo", " ">>,
      <<"eop", "mu", " ", "mi", "ting", " ">>,
      <<"no", "teu", " ", "hal", "il", " ">>,
      <<"tae", "seu", "keu", " ">> }

\* Texts with no, one or two kinds of action keyword: add, delete, tell,
\* cancel + register, erase + what, show + make, look up.
ActionParts ==
    { <<>>,
      <<"chu", "ga", "hae", "jwo">>,
      <<"sak", "je", "hae", "jwo">>,
      <<"al", "ryeo", "jwo">>,
      <<"chwi", "so", "ha", "go", " ", "deung", "rok">>,
      <<"ji", "wo", " ", "mwo">>,
      <<"bo", "yeo", "jwo", " ", "man", "deul">>,
      <<"jo", "hoe">> }

\* Date expressions: none, the three day words, the seven weekdays, texts in
\* which two patterns occur, English units, full dates, and partial or
\* oversized month and day numbers.
DateWords ==
    { <<>>,
      <<"o", "neul", " ">>,
      <<"nae", "il", " ">>,
      <<"mo", "re", " ">>,
      <<"wol", "yo", "il", " ">>,
      <<"hwa", "yo", "il", " ">>,
      <<"su", "yo", "il", " ">>,
      <<"mok", "yo", "il", " ">>,
      <<"geum", "yo", "il", " ">>,
      <<"to", "yo", "il", " ">>,
      <<"il", "yo", "il", " ">>,
      <<"nae", "il", " ", "geum", "yo", "il", " ">>,
      <<"mo", "re", " ", "o", "neul", " ">>,
      <<"il", "yo", "il", " ", "wol", "yo", "il", " ">>,
      <<"su", "yo", "il", " ", "3", "il", " ", "dwi", " ">>,
      <<"3", "il", " ", "dwi", " ", "2", "ju", " ", "dwi", " ">>,
      <<"2", "ju", " ", "hu", " ", "7", "wol", " ", "1", "il", " ">>,
      <<"1", "ju", "il", " ", "dwi", " ">>,
      <<"2", " ", "D_", "a_", "y_", "s_", " ", "hu", " ">>,
      <<"1", " ", "w_", "e_", "e_", "k_", " ", "dwi", " ">>,
      <<"2", "0", "2", "5", "nyeon", " ", "1", "wol", " ", "1", "5", "il", " ">>,
      <<"2", "0", "2", "7", "nyeon", " ", "7", "wol", " ", "1", "il", " ">>,
      <<"2", "0", "2", "5", " ", "nyeon", " ", "1", "2", " ", "wol", " ", "2", "5", " ", "il", " ">>,
      <<"3", "wol", " ">>,
      <<"5", "il", " ">>,
      <<"1", "3", "wol", " ", "1", "il", " ">>,
      <<"2", "wol", " ", "3", "0", "il", " ">>,
      <<"1", "2", "3", "wol", " ", "5", "il", " ">>,
      <<"7", "wol", " ", "1", "2", "3", "il", " ">> }

\* "N il dwi" (N days later) and "N ju hu" (N weeks later).
CountedDates ==
    { Decimal(k) \o <<"il", " ", "dwi", " ">> : k \in 0..MaxCount }
        \cup { Decimal(k) \o <<"ju", " ", "hu", " ">> : k \in 0..MaxCount }

\* "M wol D il" (month M, day D).
MonthDays ==
    { Decimal(m) \o <<"wol", " ">> \o Decimal(d) \o <<"il", " ">> :
        m \in {2, 6, 7, 12}, d \in {1, 2, 28, 29, 30, 31} }

\* No time, 2 p.m., and 25 o'clock.
FewTimes ==
    { <<>>,
      <<"o", "hu", " ", "2", "si">>,
      <<"2", "5", "si", " ">> }

\* No date, tomorrow, and 1 July.
FewDates ==
    { <<>>,
      <<"nae", "il", " ">>,
      <<"7", "wol", " ", "1", "il", " ">> }

\* "[o jeon | o hu] H si [30 bun]": a.m. / p.m., the hour and the minutes.
ClockTimes ==
    { mer \o Decimal(h) \o <<"si">> \o mins :
        mer \in { <<>>, <<"o", "jeon", " ">>, <<"o", "hu", " ">> },
        h \in 0..MaxHour,
        mins \in { <<" ">>, <<" ", "3", "0", "bun", " ">> } }

\* Colon times, minutes without the minute sign, no spaces, three digits,
\* 70 minutes, and "half past".
ExtraTimes ==
    { <<"1", "4", ":", "3", "0", " ">>,
      <<"9", ":", "0", "5", " ">>,
      <<"1", "2", "3", ":", "4", "5", " ">>,
      <<"o", "hu", " ", "3", "si", " ", "5", " ">>,
      <<"o", "jeon", "9", "si", "1", "5", "bun", " ">>,
      <<"o", "hu", " ", "1", "2", "3", "si", " ">>,
      <<"o", "hu", " ", "1", "1", "si", " ", "7", "0", "bun", " ">>,
      <<"3", "si", " ", "ban", " ">> }

\* The rest of the message: nothing, "... team meeting schedule add" and
\* "by ... write report to-do add" (the first two suggested commands).
Tails ==
    { <<>>,
      <<"e", " ", "tim", " ", "mi", "ting", " ", "il", "jeong", " ", "chu", "ga", "hae", "jwo">>,
      <<"kka", "ji", " ", "bo", "go", "seo", " ", "jak", "seong", " ", "hal", " ", "il", " ", "chu", "ga", "hae", "jwo">> }

\* The suggested commands of the chat view, in the order shown: "tomorrow at
\* 2 p.m. team meeting schedule add", "by Friday write report to-do add",
\* "project idea memo save", "this week's schedule tell".
suggestedCommands ==
    << <<"nae", "il", " ", "o", "hu", " ", "2", "si", "e", " ", "tim", " ", "mi", "ting", " ", "il", "jeong", " ", "chu", "ga", "hae", "jwo">>,
       <<"geum", "yo", "il", "kka", "ji", " ", "bo", "go", "seo", " ", "jak", "seong", " ", "hal", " ", "il", " ", "chu", "ga", "hae", "jwo">>,
       <<"peu", "ro", "jek", "teu", " ", "a", "i", "di", "eo", " ", "me", "mo", " ", "jeo", "jang", "hae", "jwo">>,
       <<"i", "beon", " ", "ju", " ", "il", "jeong", " ", "al", "ryeo", "jwo">> >>

\* Further messages sent: "what shall I eat for lunch today?", an event with
\* a quoted title, "show to-dos", "delete schedule", "idea memo add", and
\* "work add" and "task add", which leave two and three characters when
\* stripped.
OtherMessages ==
    { <<"o", "neul", " ", "jeom", "sim", " ", "mwo", " ", "meok", "eul", "kka", "?">>,
      <<"nae", "il", " ", "\"", "tim", " ", "hoe", "ui", "\"", " ", "il", "jeong", " ", "chu", "ga", "hae", "jwo">>,
      <<"hal", " ", "il", " ", "bo", "yeo", "jwo">>,
      <<"il", "jeong", " ", "sak", "je", "hae", "jwo">>,
      <<"a", "i", "di", "eo", " ", "me", "mo", " ", "chu", "ga", "hae", "jwo">>,
      <<"eop", "mu", " ", "chu", "ga", "hae", "jwo">>,
      <<"tae", "seu", "keu", " ", "chu", "ga", "hae", "jwo">> }

Utterances == { suggestedCommands[i] : i \in 1..Len(suggestedCommands) } \cup OtherMessages

\* Messages with quotation marks: a to-do in single quotes, a title of one
\* character, a message whose quoted title holds a date, a time and keywords, two
\* quoted spans, single quotes inside double quotes, an empty pair of quotes,
\* and a quote that is never closed.
QuotedMessages ==
    { <<"'", "bo", "go", "seo", "'", " ", "hal", " ", "il", " ", "chu", "ga", "hae", "jwo">>,
      <<"\"", "tim", "\"", " ", "il", "jeong", " ", "chu", "ga">>,
      <<"\"", "nae", "il", " ", "3", "si", " ", "il", "jeong", " ", "chu", "ga", "\"", " ", "me", "mo", " ", "chu", "ga", "hae", "jwo">>,
      <<"\"", "tim", "\"", " ", "\"", "bo", "go", "seo", "\"", " ", "il", "jeong", " ", "chu", "ga">>,
      <<"\"", "tim", " ", "'", "ju", "gan", "'", " ", "hoe", "ui", "\"", " ", "il", "jeong", " ", "chu", "ga", "hae", "jwo">>,
      <<"\"", "\"", " ", "il", "jeong", " ", "chu", "ga", "hae", "jwo">>,
      <<"\"", "tim", " ", "hoe", "ui", " ", "il", "jeong", " ", "chu", "ga", "hae", "jwo">> }

\* Messages that ask for a change of an existing object: "schedule modify",
\* "meeting time change", "to-do replace", "memo correct".
UpdateMessages ==
    { <<"il", "jeong", " ", "su", "jeong", "hae", "jwo">>,
      <<"hoe", "ui", " ", "si", "gan", " ", "byeon", "gyeong", "hae", "jwo">>,
      <<"hal", " ", "il", " ", "ba", "kkwo", "jwo">>,
      <<"me", "mo", " ", "go", "chyeo", "jwo">> }

ClassifyMessages ==
    { e \o a : e \in EntityParts, a \in ActionParts } \cup Utterances
        \cup QuotedMessages \cup UpdateMessages

DateMessages ==
    { d \o t \o tail :
        d \in DateWords \cup CountedDates \cup MonthDays, t \in FewTimes, tail \in Tails }

TimeMessages ==
    { d \o t \o tail : d \in FewDates, t \in ClockTimes \cup ExtraTimes, tail \in Tails }

\* The pairs (message, new Date()) the parsing functions are applied to.
Inputs ==
    { [message |-> m, now |-> n] : m \in ClassifyMessages \cup DateMessages, n \in Nows }
        \cup { [message |-> m, now |-> n] : m \in TimeMessages, n \in FewNows }

-----------------------------------------------------------------------------
(* The parsing functions applied to the inputs *)

\* The chat view is not shown: another view is, and no request is pending.
NoView ==
    /\ currentView = "MAIN"
    /\ instance = 0
    /\ messages = <<>>
    /\ inputMessage = <<>>
    /\ isLoading = FALSE
    /\ requests = {}
    /\ sent = 0

ParseInit ==
    /\ \E i \in Inputs : message = i.message /\ now = i.now
    /\ pc = "input"
    /\ dateOut = NullRec
    /\ timeOut = NullRec
    /\ detected = Null
    /\ command = NullRec
    /\ reply = NullRec
    /\ calls = <<>>
    /\ events = <<>>
    /\ todos = <<>>
    /\ memos = <<>>
    /\ NoView

\* parseKoreanDate(message)
ResolveDate ==
    /\ pc = "input"
    /\ pc' = "date"
    /\ dateOut' = parseKoreanDate(message, now)
    /\ UNCHANGED <<message, now, timeOut, detected, command, reply, calls,
                   events, todos, memos, viewVars>>

\* parseTime(message)
ResolveTime ==
    /\ pc = "input"
    /\ pc' = "time"
    /\ timeOut' = parseTime(message)
    /\ UNCHANGED <<message, now, dateOut, detected, command, reply, calls,
                   events, todos, memos, viewVars>>

\* parseCommand(message); detected, dateOut and timeOut keep its locals
\* detectedAction, parsedDate and parsedTime (the last two are computed only
\* when an entity was found).
Classify ==
    /\ pc = "input"
    /\ pc' = "command"
    /\ command' = parseCommand(message, now)
    /\ detected' = detectAction(toLowerCase(message))
    /\ dateOut' = IF command'.action # "chat"
                  THEN parseKoreanDate(message, now) ELSE NullRec
    /\ timeOut' = IF command'.action # "chat" THEN parseTime(message) ELSE NullRec
    /\ UNCHANGED <<message, now, reply, calls, events, todos, memos, viewVars>>

ParseNext == ResolveDate \/ ResolveTime \/ Classify

SpecParse == ParseInit /\ [][ParseNext]_vars

-----------------------------------------------------------------------------
(* The stores, executeCommand and aiService.sendMessage *)

\* The most rows a table holds.
MaxStore == 2

\* The times of the calls: Wednesday 2026-07-01 10:30 and Friday 2026-07-03 9:00.
SendNows ==
    { [day |-> MakeDay(2026, 6, 1), min |-> 630, ms |-> 0],
      [day |-> MakeDay(2026, 6, 3), min |-> 540, ms |-> 0] }

\* date-fns format(date, 'M wol d il HH:mm'), format(date, 'M wol d il'),
\* format(date, 'M/d HH:mm') and format(date, "yyyy-MM-dd'T'HH:mm"): the
\* fields the pattern prints.
formatMonthDayTime(d) ==
    [month |-> getMonth1(d), day |-> getDate(d),
     hours |-> getHours(d), minutes |-> getMinutes(d)]

formatMonthDay(d) == [month |-> getMonth1(d), day |-> getDate(d)]

formatLocalIso(d) ==
    [year |-> getFullYear(d), month |-> getMonth1(d), day |-> getDate(d),
     hours |-> getHours(d), minutes |-> getMinutes(d)]

\* a < b on two "yyyy-MM-dd'T'HH:mm" values
IsoLess(a, b) ==
    LET ka == <<a.year, a.month, a.day, a.hours, a.minutes>>
        kb == <<b.year, b.month, b.day, b.hours, b.minutes>>
    IN  \E i \in 1..5 : ka[i] < kb[i] /\ \A j \in 1..(i - 1) : ka[j] = kb[j]

\* The orders in which the rows of a table may come back.
RowOrders(rows) ==
    { [i \in 1..Len(rows) |-> rows[f[i]]] : f \in Permutations(1..Len(rows)) }

\* calendarService.getEvents: every event, ordered by start_date ascending
\* (rows with equal start dates in either order).
getEvents ==
    { data \in RowOrders(events) :
        \A i \in 1..(Len(data) - 1) : ~DateLess(data[i + 1].startDate, data[i].startDate) }

\* todoService.getTodos: every to-do, trashed ones included, ordered by
\* due_date ascending.
getTodos ==
    { data \in RowOrders(todos) :
        \A i \in 1..(Len(data) - 1) : ~IsoLess(data[i + 1].dueDate, data[i].dueDate) }

\* Mutant of FirstFive: slice(0, 6).
FirstSix(rows) == SubSeq(rows, 1, IF Len(rows) < 6 THEN Len(rows) ELSE 6)

\* Array.prototype.slice(0, 5)
FirstFive(rows) == SubSeq(rows, 1, IF Len(rows) < 5 THEN Len(rows) ELSE 5)

\* Array.prototype.filter(t => t.status !== 'wanryo')
RECURSIVE NotCompleted(_)
NotCompleted(rows) ==
    IF rows = <<>> THEN <<>>
    ELSE IF Head(rows).status # "wanryo"
         THEN <<Head(rows)>> \o NotCompleted(Tail(rows))
         ELSE NotCompleted(Tail(rows))

\* What executeCommand hands to the store and what it answers.  ok says whether
\* the store call succeeds; data is what a list call returns.  The value is
\* [response, calls, events, todos, memos]: the reply ("" is [kind |-> "empty"]),
\* the calls made and the tables afterwards.
Unchanged(response, made) ==
    [response |-> response, calls |-> made,
     events |-> events, todos |-> todos, memos |-> memos]

CommandFailed == [kind |-> "commandFailed"]

\* Mutant of addEvent: an event with no date starts tomorrow, as a to-do
\* with no date is due tomorrow.
addEventDefaultTomorrow(c, n, ok) ==
    LET startDate == IF c.date # NullRec THEN c.date ELSE addDays(n, 1)
        endDate   == addDays(startDate, 0)
        row  == [title |-> c.title, startDate |-> startDate, endDate |-> endDate,
                 type |-> "personal",
                 color |-> "bg-blue-100 text-blue-700 border-l-4 border-blue-600"]
        call == [op |-> "createEvent", arg |-> row]
    IN  IF c.title = NoTitle THEN Unchanged([kind |-> "needEventTitle"], <<>>)
        ELSE IF ~ok THEN Unchanged(CommandFailed, <<call>>)
        ELSE [response |-> [kind |-> "eventAdded", title |-> c.title,
                            dateStr |-> formatMonthDayTime(startDate)],
              calls |-> <<call>>,
              events |-> Append(events, row), todos |-> todos, memos |-> memos]

addEvent(c, n, ok) ==
    LET startDate == IF c.date # NullRec THEN c.date ELSE n
        endDate   == addDays(startDate, 0)
        row  == [title |-> c.title, startDate |-> startDate, endDate |-> endDate,
                 type |-> "personal",
                 color |-> "bg-blue-100 text-blue-700 border-l-4 border-blue-600"]
        call == [op |-> "createEvent", arg |-> row]
    IN  IF c.title = NoTitle THEN Unchanged([kind |-> "needEventTitle"], <<>>)
        ELSE IF ~ok THEN Unchanged(CommandFailed, <<call>>)
        ELSE [response |-> [kind |-> "eventAdded", title |-> c.title,
                            dateStr |-> formatMonthDayTime(startDate)],
              calls |-> <<call>>,
              events |-> Append(events, row), todos |-> todos, memos |-> memos]

\* Mutant of addTodo: a to-do with the same title and due date as one already
\* in the list is not created again.
addTodoOnce(c, n, ok) ==
    LET dueDate == IF c.date # NullRec THEN c.date ELSE addDays(n, 1)
        row  == [title |-> c.title, dueDate |-> formatLocalIso(dueDate),
                 status |-> "daegi", priority |-> "jung", project |-> "gita",
                 assignee |-> "na", description |-> <<>>, isDeleted |-> FALSE]
        call == [op |-> "createTodo", arg |-> row]
        response == [kind |-> "todoAdded", title |-> c.title,
                     dateStr |-> formatMonthDay(dueDate)]
    IN  IF c.title = NoTitle THEN Unchanged([kind |-> "needTodoTitle"], <<>>)
        ELSE IF \E i \in 1..Len(todos) : todos[i] = row THEN Unchanged(response, <<>>)
        ELSE IF ~ok THEN Unchanged(CommandFailed, <<call>>)
        ELSE [response |-> response,
              calls |-> <<call>>,
              events |-> events, todos |-> Append(todos, row), memos |-> memos]

addTodo(c, n, ok) ==
    LET dueDate == IF c.date # NullRec THEN c.date ELSE addDays(n, 1)
        row  == [title |-> c.title, dueDate |-> formatLocalIso(dueDate),
                 status |-> "daegi", priority |-> "jung", project |-> "gita",
                 assignee |-> "na", description |-> <<>>, isDeleted |-> FALSE]
        call == [op |-> "createTodo", arg |-> row]
    IN  IF c.title = NoTitle THEN Unchanged([kind |-> "needTodoTitle"], <<>>)
        ELSE IF ~ok THEN Unchanged(CommandFailed, <<call>>)
        ELSE [response |-> [kind |-> "todoAdded", title |-> c.title,
                            dateStr |-> formatMonthDay(dueDate)],
              calls |-> <<call>>,
              events |-> events, todos |-> Append(todos, row), memos |-> memos]

\* Mutant of addMemo: a refused create call gives the empty result, which
\* sendMessage hands on to the conversational responder.
addMemoFailsSilently(c, ok) ==
    LET title == IF c.title # NoTitle THEN c.title ELSE <<"sae", " ", "me", "mo">>
        row   == [title |-> title, content |-> c.originalMessage,
                  tags |-> <<>>, isPinned |-> FALSE]
        call  == [op |-> "createMemo", arg |-> row]
    IN  IF ~ok THEN Unchanged([kind |-> "empty"], <<call>>)
        ELSE [response |-> [kind |-> "memoSaved", title |-> title],
              calls |-> <<call>>,
              events |-> events, todos |-> todos, memos |-> Append(memos, row)]

\* The default title "sae memo" (new memo)
addMemo(c, ok) ==
    LET title == IF c.title # NoTitle THEN c.title ELSE <<"sae", " ", "me", "mo">>
        row   == [title |-> title, content |-> c.originalMessage,
                  tags |-> <<>>, isPinned |-> FALSE]
        call  == [op |-> "createMemo", arg |-> row]
    IN  IF ~ok THEN Unchanged(CommandFailed, <<call>>)
        ELSE [response |-> [kind |-> "memoSaved", title |-> title],
              calls |-> <<call>>,
              events |-> events, todos |-> todos, memos |-> Append(memos, row)]

listEvents(data) ==
    IF data = <<>> THEN Unchanged([kind |-> "noEvents"], <<[op |-> "getEvents"]>>)
    ELSE Unchanged(
            [kind |-> "eventList",
             items |-> [i \in 1..Len(FirstFive(data)) |->
                          [title |-> data[i].title,
                           dateStr |-> formatMonthDayTime(data[i].startDate)]]],
            <<[op |-> "getEvents"]>>)

listTodos(data) ==
    IF data = <<>> THEN Unchanged([kind |-> "noTodos"], <<[op |-> "getTodos"]>>)
    ELSE Unchanged(
            [kind |-> "todoList",
             items |-> LET pending == FirstFive(NotCompleted(data))
                       IN  [i \in 1..Len(pending) |-> pending[i].title]],
            <<[op |-> "getTodos"]>>)

\* Mutant of executeCommand: a delete command is handed to the store.
executeCommandDeletes(c, n, ok, data) ==
    IF c.action = "add" /\ c.entity = "event" THEN addEvent(c, n, ok)
    ELSE IF c.action = "add" /\ c.entity = "todo" THEN addTodo(c, n, ok)
    ELSE IF c.action = "add" /\ c.entity = "memo" THEN addMemo(c, ok)
    ELSE IF c.action = "list" /\ c.entity = "event" THEN listEvents(data)
    ELSE IF c.action = "list" /\ c.entity = "todo" THEN listTodos(data)
    ELSE IF c.action = "delete"
         THEN Unchanged([kind |-> "empty"], <<[op |-> "delete", entity |-> c.entity]>>)
    ELSE Unchanged([kind |-> "empty"], <<>>)

\* executeCommand(command), called while new Date() is n.
executeCommand(c, n, ok, data) ==
    IF c.action = "add" /\ c.entity = "event" THEN addEvent(c, n, ok)
    ELSE IF c.action = "add" /\ c.entity = "todo" THEN addTodo(c, n, ok)
    ELSE IF c.action = "add" /\ c.entity = "memo" THEN addMemo(c, ok)
    ELSE IF c.action = "list" /\ c.entity = "event" THEN listEvents(data)
    ELSE IF c.action = "list" /\ c.entity = "todo" THEN listTodos(data)
    ELSE Unchanged([kind |-> "empty"], <<>>)

\* What the store of a list command may return: the ordered rows, or nothing
\* when the query fails (data is null and the error is not looked at).
ListData(c, ok) ==
    IF c.action = "list" /\ c.entity = "event" THEN (IF ok THEN getEvents ELSE {<<>>})
    ELSE IF c.action = "list" /\ c.entity = "todo" THEN (IF ok THEN getTodos ELSE {<<>>})
    ELSE {<<>>}

\* The table an add command inserts into, or Null.
TargetTable(c) ==
    IF c.action # "add" THEN Null
    ELSE IF c.entity = "event" /\ c.title # NoTitle THEN "events"
    ELSE IF c.entity = "todo" /\ c.title # NoTitle THEN "todos"
    ELSE IF c.entity = "memo" THEN "memos"
    ELSE Null

HasRoom(c) ==
    /\ TargetTable(c) = "events" => Len(events) < MaxStore
    /\ TargetTable(c) = "todos" => Len(todos) < MaxStore
    /\ TargetTable(c) = "memos" => Len(memos) < MaxStore

\* Mutant of Converse: the catch block does not look for "404" in the error
\* message.
ConverseOneApology(text, chatOutcome) ==
    [response |->
        IF chatOutcome = "ok" THEN [kind |-> "chat", text |-> text]
        ELSE [kind |-> "apology"],
     command |-> NullRec]

\* The conversational responder: its answer to the text, or the static
\* message of the catch block its failure ends in.
Converse(text, chatOutcome) ==
    [response |->
        IF chatOutcome = "ok" THEN [kind |-> "chat", text |-> text]
        ELSE IF chatOutcome = "404" THEN [kind |-> "modelUnavailable"]
        ELSE [kind |-> "apology"],
     command |-> NullRec]

\* parseCommand on the messages sent, computed once: parseCommand is a pure
\* function of the message and the clock.
CommandTable ==
    { [message |-> u[1], now |-> u[2], command |-> parseCommand(u[1], u[2])] :
        u \in Utterances \X SendNows }

Parsed(m, n) == (CHOOSE r \in CommandTable : r.message = m /\ r.now = n).command

\* Whether the command reaches a store call, and whether the message reaches
\* the conversational responder.
CallsStore(c) ==
    \/ TargetTable(c) # Null
    \/ c.action = "list" /\ c.entity \in {"event", "todo"}

ReachesResponder(c) ==
    \/ c.action = "chat"
    \/ c.action = "delete"
    \/ c.action = "list" /\ c.entity = "memo"

\* Step 2 of sendMessage: executeCommand is called for a command that is no
\* chat and has an entity.
Dispatch(c, n, ok, data) ==
    IF c.action # "chat" /\ c.entity # Null
    THEN executeCommand(c, n, ok, data)
    ELSE Unchanged([kind |-> "empty"], <<>>)

\* Mutant of Answer: the answer of the conversational responder is returned
\* together with the parsed command.
AnswerKeepsCommand(m, c, ex, chatOutcome) ==
    IF ex.response.kind # "empty"
    THEN [reply |-> [response |-> ex.response, command |-> c],
          calls |-> ex.calls,
          events |-> ex.events, todos |-> ex.todos, memos |-> ex.memos]
    ELSE [reply |-> [response |-> Converse(m, chatOutcome).response, command |-> c],
          calls |-> Append(ex.calls, [op |-> "converse", text |-> m,
                                     outcome |-> chatOutcome]),
          events |-> ex.events, todos |-> ex.todos, memos |-> ex.memos]

\* What sendMessage returns once executeCommand has answered ex: ex itself
\* when it is not empty, the conversational responder's answer otherwise.
\* The call of the responder is logged with the way it ended.
Answer(m, c, ex, chatOutcome) ==
    IF ex.response.kind # "empty"
    THEN [reply |-> [response |-> ex.response, command |-> c],
          calls |-> ex.calls,
          events |-> ex.events, todos |-> ex.todos, memos |-> ex.memos]
    ELSE [reply |-> Converse(m, chatOutcome),
          calls |-> Append(ex.calls, [op |-> "converse", text |-> m,
                                     outcome |-> chatOutcome]),
          events |-> ex.events, todos |-> ex.todos, memos |-> ex.memos]

\* aiService.sendMessage(message): the value returned and the effects; c is
\* the command parseCommand(message) gave.
sendMessage(m, c, n, ok, data, chatOutcome) ==
    Answer(m, c, Dispatch(c, n, ok, data), chatOutcome)

Init ==
    /\ message = <<>>
    /\ now \in SendNows
    /\ pc = "idle"
    /\ dateOut = NullRec
    /\ timeOut = NullRec
    /\ detected = Null
    /\ command = NullRec
    /\ reply = NullRec
    /\ calls = <<>>
    /\ events = <<>>
    /\ todos = <<>>
    /\ memos = <<>>
    /\ NoView

\* The state after sendMessage returned r for the message m parsed as c.
Returned(m, n, c, r) ==
    /\ message' = m
    /\ now' = n
    /\ pc' = "sent"
    /\ command' = c
    /\ reply' = r.reply
    /\ calls' = r.calls
    /\ events' = r.events
    /\ todos' = r.todos
    /\ memos' = r.memos

\* sendMessage on the message m parsed as c: each outcome of the store call
\* and of the conversational responder the command can meet.
Outcomes(m, n, c) ==
    \E ok \in (IF CallsStore(c) THEN BOOLEAN ELSE {TRUE}),
       chatOutcome \in (IF ReachesResponder(c) THEN {"ok", "404", "error"}
                        ELSE {"ok"}) :
        \E data \in ListData(c, ok) :
            Returned(m, n, c, sendMessage(m, c, n, ok, data, chatOutcome))

\* One call of sendMessage, from the user's message to the returned reply.
\* The clock does not run backwards between calls.
SendMessage ==
    /\ pc \in {"idle", "sent"}
    /\ \E m \in Utterances, n \in SendNows :
         /\ ~DateLess(n, now)
         /\ HasRoom(Parsed(m, n))
         /\ Outcomes(m, n, Parsed(m, n))
    /\ UNCHANGED <<dateOut, timeOut, detected, viewVars>>

Next == SendMessage

Spec == Init /\ [][Next]_vars

\* The messages of the first call: those of the classifier, the first two
\* suggested commands with no date, tomorrow or 1 July and with no time,
\* 2 p.m. or 25 o'clock in front, and "3 o'clock project meeting add".
FirstMessages ==
    ClassifyMessages
        \cup { d \o t \o tail : d \in FewDates, t \in FewTimes, tail \in Tails }
        \cup { <<"3", "si", " ", "peu", "ro", "jek", "teu", " ", "hoe", "ui", " ",
                 "chu", "ga", "hae", "jwo">> }

\* The first call of sendMessage, on empty tables, with any of these messages.
SendFirst ==
    /\ pc = "idle"
    /\ \E m \in FirstMessages, n \in SendNows :
         /\ ~DateLess(n, now)
         /\ Outcomes(m, n, parseCommand(m, n))
    /\ UNCHANGED <<dateOut, timeOut, detected, viewVars>>

SpecFirst == Init /\ [][SendFirst]_vars

-----------------------------------------------------------------------------
(* The list commands on tables filled through the calendar and to-do views *)

\* The most rows of the tables the list commands are sent to.
MaxRows == 6

\* The i-th event put into the calendar, starting at 9:00 of the given day.
EventRow(i, day) ==
    [title |-> <<"hoe", "ui", " ">> \o Decimal(i),
     startDate |-> [day |-> day, min |-> 540, ms |-> 0],
     endDate |-> [day |-> day, min |-> 540, ms |-> 0],
     type |-> "team",
     color |-> "bg-blue-100 text-blue-700 border-l-4 border-blue-600"]

\* The i-th to-do put into the list, due at 18:00 of the given day.
TodoRow(i, day, status) ==
    [title |-> <<"eop", "mu", " ">> \o Decimal(i),
     dueDate |-> formatLocalIso([day |-> day, min |-> 1080, ms |-> 0]),
     status |-> status, priority |-> "jung", project |-> "gita",
     assignee |-> "na", description |-> <<>>, isDeleted |-> FALSE]

\* The day of the i-th of k rows, counted from Monday 2026-06-29: rows put in
\* from the earliest on, from the latest on, or in no order and with equal
\* days.  Some days lie before the calls, some after.
RowDay(shape, i, k) ==
    MakeDay(2026, 5, 29)
        + (CASE shape = "later" -> i
             [] shape = "earlier" -> k - i
             [] shape = "mixed" -> (3 * i) % 4)

\* The status of the i-th to-do: all waiting, all completed, or completed and
\* in progress in turn.
RowStatus(mix, i) ==
    CASE mix = "open" -> "daegi"
      [] mix = "done" -> "wanryo"
      [] mix = "both" -> (IF i % 2 = 1 THEN "wanryo" ELSE "jinhaengjung")

EventTables ==
    { [i \in 1..k |-> EventRow(i, RowDay(shape, i, k))] :
        k \in 0..MaxRows, shape \in {"later", "earlier", "mixed"} }

TodoTables ==
    { [i \in 1..k |-> TodoRow(i, RowDay(shape, i, k), RowStatus(mix, i))] :
        k \in 0..MaxRows, shape \in {"later", "mixed"}, mix \in {"open", "done", "both"} }

\* "this week's schedule tell" (the fourth suggested command) and "show to-dos".
ListMessages ==
    { suggestedCommands[4], <<"hal", " ", "il", " ", "bo", "yeo", "jwo">> }

InitList ==
    /\ message = <<>>
    /\ now \in SendNows
    /\ pc = "idle"
    /\ dateOut = NullRec
    /\ timeOut = NullRec
    /\ detected = Null
    /\ command = NullRec
    /\ reply = NullRec
    /\ calls = <<>>
    /\ \/ events \in EventTables /\ todos = <<>>
       \/ events = <<>> /\ todos \in TodoTables
    /\ memos = <<>>
    /\ NoView

\* One call of sendMessage with a list command.
SendList ==
    /\ pc = "idle"
    /\ \E m \in ListMessages :
         Outcomes(m, now, parseCommand(m, now))
    /\ UNCHANGED <<dateOut, timeOut, detected, viewVars>>

SpecList == InitList /\ [][SendList]_vars

-----------------------------------------------------------------------------
(* The chat view: AIView, and App which mounts it while currentView is AI *)

\* The most calls of aiService.sendMessage in a behaviour, and the most times
\* the chat view is opened.
MaxSends == 2

MaxMounts == 2

\* What the user types into the input: "what shall I eat for lunch today?",
\* two blanks, or nothing.
ViewTexts ==
    { <<"o", "neul", " ", "jeom", "sim", " ", "mwo", " ", "meok", "eul", "kka", "?">>,
      <<" ", " ">>,
      <<>> }

\* The message list of a newly mounted view, and the one handleClearChat sets.
initialMessages == <<[role |-> "assistant", content |-> [kind |-> "greeting"]]>>

clearedMessages == <<[role |-> "assistant", content |-> [kind |-> "greetingAfterClear"]]>>

\* command?.action !== 'chat': for command = null the left side is undefined,
\* which differs from 'chat'.
isCommand(c) == IF c = NullRec THEN TRUE ELSE c.action # "chat"

\* The userMessage and the assistantMessage of handleSend.  The field request
\* names the call of sendMessage a message belongs to; the id and timestamp
\* of the source are clock readings.
userMessage(text, k) ==
    [role |-> "user", content |-> [kind |-> "text", text |-> text], request |-> k]

assistantMessage(r, k) ==
    [role |-> "assistant", content |-> r.response,
     isCommand |-> isCommand(r.command), request |-> k]

\* Mutant of StartRequest: a new call takes the place of those that have not
\* returned.
StartRequestCancelling(text) ==
    { [request |-> sent + 1, instance |-> instance, text |-> text,
       command |-> parseCommand(text, now)] }

\* The pending calls once aiService.sendMessage(text) has been called: the
\* call starts at once, next to those that have not returned.
StartRequest(text) ==
    requests \cup { [request |-> sent + 1, instance |-> instance, text |-> text,
                     command |-> parseCommand(text, now)] }

\* Layout's onNavigate(ViewState.AI): App renders a new AIView.
OpenChat ==
    /\ currentView = "MAIN"
    /\ instance < MaxMounts
    /\ currentView' = "AI"
    /\ instance' = instance + 1
    /\ messages' = initialMessages
    /\ inputMessage' = <<>>
    /\ isLoading' = FALSE
    /\ UNCHANGED <<message, now, pc, dateOut, timeOut, detected, command, reply,
                   calls, events, todos, memos, requests, sent>>

\* onNavigate to another view: the AIView is unmounted and its state is lost;
\* the calls it started go on.
LeaveChat ==
    /\ currentView = "AI"
    /\ currentView' = "MAIN"
    /\ messages' = <<>>
    /\ inputMessage' = <<>>
    /\ isLoading' = FALSE
    /\ UNCHANGED <<message, now, pc, dateOut, timeOut, detected, command, reply,
                   calls, events, todos, memos, instance, requests, sent>>

\* onChange of the input, which is disabled while isLoading.
HandleChange ==
    /\ currentView = "AI"
    /\ ~isLoading
    /\ \E text \in ViewTexts : inputMessage' = text
    /\ UNCHANGED <<message, now, pc, dateOut, timeOut, detected, command, reply,
                   calls, events, todos, memos, currentView, instance, messages,
                   isLoading, requests, sent>>

\* handleSuggestedCommand, from the buttons shown while messages.length <= 2.
HandleSuggestedCommand ==
    /\ currentView = "AI"
    /\ Len(messages) <= 2
    /\ \E i \in 1..Len(suggestedCommands) : inputMessage' = suggestedCommands[i]
    /\ UNCHANGED <<message, now, pc, dateOut, timeOut, detected, command, reply,
                   calls, events, todos, memos, currentView, instance, messages,
                   isLoading, requests, sent>>

\* handleSend up to its await: the early return, the user message, the
\* cleared input, the loading flag and the call of aiService.sendMessage.
HandleSend ==
    /\ currentView = "AI"
    /\ trim(inputMessage) # <<>>
    /\ ~isLoading
    /\ sent < MaxSends
    /\ messages' = Append(messages, userMessage(inputMessage, sent + 1))
    /\ inputMessage' = <<>>
    /\ isLoading' = TRUE
    /\ requests' = StartRequest(inputMessage)
    /\ sent' = sent + 1
    /\ UNCHANGED <<message, now, pc, dateOut, timeOut, detected, command, reply,
                   calls, events, todos, memos, currentView, instance>>

\* A call of aiService.sendMessage returns and handleSend goes on after its
\* await: the assistant message is appended and the loading flag is cleared
\* in the view that made the call, if it is still mounted.
Resolve ==
    \E r \in requests :
        /\ Outcomes(r.text, now, r.command)
        /\ requests' = requests \ {r}
        /\ IF currentView = "AI" /\ r.instance = instance
           THEN /\ messages' = Append(messages, assistantMessage(reply', r.request))
                /\ isLoading' = FALSE
           ELSE UNCHANGED <<messages, isLoading>>
        /\ UNCHANGED <<dateOut, timeOut, detected, currentView, instance,
                       inputMessage, sent>>

\* handleClearChat, from the button in the header.
HandleClearChat ==
    /\ currentView = "AI"
    /\ messages' = clearedMessages
    /\ UNCHANGED <<message, now, pc, dateOut, timeOut, detected, command, reply,
                   calls, events, todos, memos, currentView, instance,
                   inputMessage, isLoading, requests, sent>>

NextView ==
    \/ OpenChat
    \/ LeaveChat
    \/ HandleChange
    \/ HandleSuggestedCommand
    \/ HandleSend
    \/ Resolve
    \/ HandleClearChat

SpecView == Init /\ [][NextView]_vars

-----------------------------------------------------------------------------
(* The to-do list: todoService called from the to-do view, then listed by *)
(* the assistant                                                           *)

\* The most to-dos created in a behaviour.
MaxTodos == 3

\* todos.filter of the to-do view with no project filter: the rows shown
\* under the filter all, pending, completed or trash.
filteredTodos(rows, filter) ==
    SelectSeq(rows,
        LAMBDA todo :
            CASE filter = "all" -> ~todo.isDeleted
              [] filter = "pending" -> todo.status # "wanryo" /\ ~todo.isDeleted
              [] filter = "completed" -> todo.status = "wanryo" /\ ~todo.isDeleted
              [] filter = "trash" -> todo.isDeleted = TRUE)

\* handleCreate: todoService.createTodo with the status "daegi" (waiting);
\* the i-th to-do is due on the i-th day after Monday 2026-06-29.
CreateTodo ==
    /\ pc = "idle"
    /\ Len(todos) < MaxTodos
    /\ todos' = Append(todos,
                       TodoRow(Len(todos) + 1,
                               RowDay("later", Len(todos) + 1, MaxTodos), "daegi"))
    /\ UNCHANGED <<message, now, pc, dateOut, timeOut, detected, command, reply,
                   calls, events, memos, viewVars>>

\* handleUpdateStatus: completed becomes in progress, anything else completed.
UpdateStatus ==
    /\ pc = "idle"
    /\ \E i \in 1..Len(todos) :
         todos' = [todos EXCEPT ![i].status =
                      IF @ = "wanryo" THEN "jinhaengjung" ELSE "wanryo"]
    /\ UNCHANGED <<message, now, pc, dateOut, timeOut, detected, command, reply,
                   calls, events, memos, viewVars>>

\* todoService.moveToTrash(id): updateTodo(id, { isDeleted: true })
MoveToTrash ==
    /\ pc = "idle"
    /\ \E i \in 1..Len(todos) :
         /\ ~todos[i].isDeleted
         /\ todos' = [todos EXCEPT ![i].isDeleted = TRUE]
    /\ UNCHANGED <<message, now, pc, dateOut, timeOut, detected, command, reply,
                   calls, events, memos, viewVars>>

\* todoService.restoreFromTrash(id): updateTodo(id, { isDeleted: false })
RestoreFromTrash ==
    /\ pc = "idle"
    /\ \E i \in 1..Len(todos) :
         /\ todos[i].isDeleted
         /\ todos' = [todos EXCEPT ![i].isDeleted = FALSE]
    /\ UNCHANGED <<message, now, pc, dateOut, timeOut, detected, command, reply,
                   calls, events, memos, viewVars>>

\* sendMessage("show to-dos") on the list as it stands.
AskTodos ==
    /\ pc = "idle"
    /\ Outcomes(<<"hal", " ", "il", " ", "bo", "yeo", "jwo">>, now,
                parseCommand(<<"hal", " ", "il", " ", "bo", "yeo", "jwo">>, now))
    /\ UNCHANGED <<dateOut, timeOut, detected, viewVars>>

NextTodo ==
    \/ CreateTodo
    \/ UpdateStatus
    \/ MoveToTrash
    \/ RestoreFromTrash
    \/ AskTodos

SpecTodo == Init /\ [][NextTodo]_vars

-----------------------------------------------------------------------------
(* Properties *)

\* Whether the word w occurs in the text t.
Contains(t, w) ==
    \E i \in 1..(Len(t) - Len(w) + 1) : SubSeq(t, i, i + Len(w) - 1) = w

\* Whether the text holds one of the words of the list.
Mentions(t, words) == \E i \in 1..Len(words) : Contains(t, words[i])

\* C1: sending the first suggested command ("tomorrow at 2 p.m. team meeting
\* schedule add") yields action add, entity event, the date tomorrow at 14:00
\* and a title containing "tim miting" (team meeting); the event store
\* receives exactly one create call with that title and date, and the reply is
\* the success confirmation.
C1_TeamMeetingCreated ==
    (pc = "sent" /\ message = suggestedCommands[1]) =>
        /\ command.action = "add"
        /\ command.entity = "event"
        /\ command.date = [day |-> now.day + 1, min |-> 14 * 60, ms |-> now.ms]
        /\ Contains(command.title, <<"tim", " ", "mi", "ting">>)
        /\ Len(calls) = 1
        /\ calls[1].op = "createEvent"
        /\ calls[1].arg.title = command.title
        /\ calls[1].arg.startDate = command.date
        /\ reply.response.kind \in {"eventAdded", "commandFailed"}

\* The message in lower case, as the classifier and the date resolver read it.
LowerMessage == toLowerCase(message)

HasAdd == Mentions(LowerMessage, addKeywords)

HasDelete == Mentions(LowerMessage, deleteKeywords)

HasList == Mentions(LowerMessage, listKeywords)

HasEvent == Mentions(LowerMessage, eventKeywords)

HasTodo == Mentions(LowerMessage, todoKeywords)

HasMemo == Mentions(LowerMessage, memoKeywords)

C3_EntityPrecedence ==
    (pc = "command" /\ detected # Null) =>
        /\ HasEvent => command.entity = "event"
        /\ (~HasEvent /\ HasTodo) => command.entity = "todo"
        /\ (~HasEvent /\ ~HasTodo /\ HasMemo) => command.entity = "memo"
        /\ (~HasEvent /\ ~HasTodo /\ ~HasMemo) =>
                /\ command.action = "chat"
                /\ command.entity = Null
                /\ command.date = NullRec
                /\ command.time = NullRec
                /\ command.title = NoTitle

\* A message with a list keyword and a date word but no entity keyword,
\* downgraded to chat.
C3_Witness ==
    /\ pc = "command"
    /\ detected = "list"
    /\ Contains(message, W_today)
    /\ ~(HasEvent \/ HasTodo \/ HasMemo)
    /\ command.action = "chat"
    /\ command.date = NullRec

\* C4: in every ParsedCommand the entity is null exactly when the action is
\* chat, and a command that is no chat carries event, todo or memo.
C4_EntityIffNotChat ==
    pc = "command" =>
        /\ command.action \in {"add", "delete", "list", "chat"}
        /\ (command.entity = Null) <=> (command.action = "chat")
        /\ command.action # "chat" => command.entity \in {"event", "todo", "memo"}

\* A delete command on memos: an action that is no chat, with its entity.
C4_Witness ==
    /\ pc = "command"
    /\ command.action = "delete"
    /\ command.entity = "memo"

\* The number, in the order of the claim, of the first date pattern the text
\* matches: 1 day words, 2 weekday, 3 N days later, 4 N weeks later,
\* 5 month + day, 6 year + month + day; 0 when none matches.
FirstDatePattern(t) ==
    IF Mentions(t, <<W_today, W_tomorrow, W_dayafter>>) THEN 1
    ELSE IF \E i \in 1..Len(dayMap) : Contains(t, dayMap[i].name) THEN 2
    ELSE IF \E p \in 1..Len(t) : DaysLaterAt(t, p) THEN 3
    ELSE IF \E p \in 1..Len(t) : WeeksLaterAt(t, p) THEN 4
    ELSE IF \E p \in 1..Len(t) : MonthDayAt(t, p) THEN 5
    ELSE IF \E p \in 1..Len(t) : FullDateAt(t, p) THEN 6
    ELSE 0

\* What pattern k alone makes of the text t at the time n.
PatternResult(k, t, n) ==
    CASE k = 1 -> [n EXCEPT !.day = @ + (IF Contains(t, W_today) THEN 0
                                         ELSE IF Contains(t, W_tomorrow) THEN 1
                                         ELSE 2)]
      [] k = 2 -> nextDay(n, dayMap[FirstDayEntry(t)].weekday)
      [] k = 3 -> LET p == daysLaterMatch(t)
                  IN  [n EXCEPT !.day = @ + ParseInt(t, p, DigitRunEnd(t, p))]
      [] k = 4 -> LET p == weeksLaterMatch(t)
                  IN  [n EXCEPT !.day = @ + 7 * ParseInt(t, p, DigitRunEnd(t, p))]
      [] k = 5 -> MonthDayResult(MonthDayGroups(t, monthDayMatch(t)), n)
      [] k = 6 -> FullDateResult(t, fullDateMatch(t))
      [] k = 0 -> NullRec

\* C5: the date resolver returns what the first pattern that matches gives,
\* in the order day words, weekday, N days later, N weeks later, month + day,
\* year + month + day, and no date when no pattern matches.
C5_FirstPatternWins ==
    pc = "date" =>
        dateOut = PatternResult(FirstDatePattern(LowerMessage), LowerMessage, now)

\* A text with a weekday and "3 days later": the weekday decides.
C5_Witness ==
    /\ pc = "date"
    /\ FirstDatePattern(LowerMessage) = 2
    /\ daysLaterMatch(LowerMessage) # 0
    /\ dateOut = PatternResult(2, LowerMessage, now)
    /\ dateOut # PatternResult(3, LowerMessage, now)

\* C6: a full date "Y nyeon M wol D il" resolves to year Y, month M, day D,
\* whatever the current date is.
C6_FullDateExact ==
    (/\ pc = "date"
     /\ FirstDatePattern(LowerMessage) \in {5, 6}
     /\ fullDateMatch(LowerMessage) # 0) =>
        LET p == fullDateMatch(LowerMessage)
            y == ParseInt(LowerMessage, p, p + 4)
            g == MonthDayGroups(LowerMessage,
                                SkipWs(LowerMessage, SkipWs(LowerMessage, p + 4) + 1))
        IN  (g.month \in 1..12 /\ g.day \in 1..DaysInMonth(y, g.month)) =>
                /\ getFullYear(dateOut) = y
                /\ getMonth1(dateOut) = g.month
                /\ getDate(dateOut) = g.day

\* C7: a month + day expression with no year resolves to that month and day
\* of the current year when the call is made before that day, and of the next
\* year when the call is made after it (for a day that exists in both years).
C7_MonthDayRollover ==
    (/\ pc = "date"
     /\ FirstDatePattern(LowerMessage) = 5
     /\ fullDateMatch(LowerMessage) = 0) =>
        LET g == MonthDayGroups(LowerMessage, monthDayMatch(LowerMessage))
            y == getFullYear(now)
            thatDay == MakeDay(y, g.month - 1, g.day)
            IsThat(d, year) ==
                /\ getFullYear(d) = year
                /\ getMonth1(d) = g.month
                /\ getDate(d) = g.day
                /\ d.min = 0 /\ d.ms = 0
        IN  (/\ g.month \in 1..12
             /\ g.day \in 1..DaysInMonth(y, g.month)
             /\ g.day <= DaysInMonth(y + 1, g.month)) =>
                /\ now.day < thatDay => IsThat(dateOut, y)
                /\ now.day > thatDay => IsThat(dateOut, y + 1)

\* "7 wol 1 il" asked after 1 July 2026: 1 July 2027.
C7_Witness ==
    /\ pc = "date"
    /\ FirstDatePattern(LowerMessage) = 5
    /\ Contains(message, <<"7", "wol", " ", "1", "il">>)
    /\ now.day > MakeDay(2026, 6, 1)
    /\ dateOut = NewDate(2027, 6, 1)

\* The getDay() number of the weekday the text names, the first in the order
\* Monday .. Sunday when it names several; 7 when it names none.
NamedWeekday(t) ==
    IF Contains(t, <<"wol", "yo", "il">>) THEN 1
    ELSE IF Contains(t, <<"hwa", "yo", "il">>) THEN 2
    ELSE IF Contains(t, <<"su", "yo", "il">>) THEN 3
    ELSE IF Contains(t, <<"mok", "yo", "il">>) THEN 4
    ELSE IF Contains(t, <<"geum", "yo", "il">>) THEN 5
    ELSE IF Contains(t, <<"to", "yo", "il">>) THEN 6
    ELSE IF Contains(t, <<"il", "yo", "il">>) THEN 0
    ELSE 7

\* C8: a named weekday resolves to the next such weekday strictly after
\* today: 1 to 7 days ahead, at the same time of day, and 7 days ahead exactly
\* when today is that weekday.
C8_NextWeekdayStrictlyAfter ==
    (pc = "date" /\ FirstDatePattern(LowerMessage) = 2) =>
        /\ dateOut.day - now.day \in 1..7
        /\ getDay(dateOut) = NamedWeekday(LowerMessage)
        /\ (dateOut.day - now.day = 7) <=> (getDay(now) = NamedWeekday(LowerMessage))
        /\ dateOut.min = now.min /\ dateOut.ms = now.ms

\* Today is the weekday named: the result is a week ahead.
C8_Witness ==
    /\ pc = "date"
    /\ FirstDatePattern(LowerMessage) = 2
    /\ getDay(now) = NamedWeekday(LowerMessage)
    /\ dateOut.day = now.day + 7

\* Whether the message holds the time "mer H si" (mer: "o jeon" a.m. or
\* "o hu" p.m.), with or without a space, and no other a.m. / p.m. time.
SaysClock(mer, h) ==
    /\ \/ Contains(message, mer \o <<" ">> \o Decimal(h) \o <<"si">>)
       \/ Contains(message, mer \o Decimal(h) \o <<"si">>)
    /\ Cardinality({p \in 1..Len(message) : AmpmAt(message, p)}) = 1

\* Whether digits follow the hour sign of the a.m. / p.m. time.
MinutesGiven ==
    LET p == ampmMatch(message)
        r == SkipWs(message, p + 2)
        s == SkipWs(message, Digits12End(message, r))
    IN  IsDigit(At(message, SkipWs(message, s + 1)))

\* C9: with an explicit meridiem, p.m. H < 12 gives H + 12, p.m. 12 gives 12,
\* a.m. 12 gives 0 and a.m. H < 12 gives H; the minutes are 0 when none are
\* given.
C9_MeridiemTo24Hours ==
    pc = "time" =>
        \A h \in 0..12 :
            /\ SaysClock(<<"o", "hu">>, h) =>
                    /\ timeOut.hours = (IF h < 12 THEN h + 12 ELSE 12)
                    /\ ~MinutesGiven => timeOut.minutes = 0
            /\ SaysClock(<<"o", "jeon">>, h) =>
                    /\ timeOut.hours = (IF h < 12 THEN h ELSE 0)
                    /\ ~MinutesGiven => timeOut.minutes = 0

\* "o jeon 12 si" (12 a.m.) read as hour 0, minute 0.
C9_Witness ==
    /\ pc = "time"
    /\ SaysClock(<<"o", "jeon">>, 12)
    /\ ~MinutesGiven
    /\ timeOut = [hours |-> 0, minutes |-> 0]

\* C10: a command has a time only if it has a date; when a date and a time
\* were both parsed, the hour and minute of the command's date are the parsed
\* time; when no date was parsed, the command has neither date nor time.
C10_TimeOverwritesDate ==
    (pc = "command" /\ command.action # "chat") =>
        /\ command.time # NullRec => command.date # NullRec
        /\ (dateOut # NullRec /\ timeOut # NullRec) =>
                /\ getHours(command.date) = timeOut.hours
                /\ getMinutes(command.date) = timeOut.minutes
        /\ dateOut = NullRec => (command.date = NullRec /\ command.time = NullRec)

\* The position of the first quotation mark of the text, 0 when it has none.
FirstQuote(t) == Leftmost({p \in 1..Len(t) : t[p] \in {"'", "\""}})

\* The position of the mark that closes the first quotation mark: the next
\* mark of the same kind; 0 when there is none.
ClosingQuote(t) ==
    IF FirstQuote(t) = 0 THEN 0
    ELSE Leftmost({q \in (FirstQuote(t) + 1)..Len(t) : t[q] = t[FirstQuote(t)]})

\* Whether the text holds quoted text: a first span that is closed, is not
\* empty and holds no quotation mark of the other kind.
HasQuotedSpan(t) ==
    /\ ClosingQuote(t) > FirstQuote(t) + 1
    /\ \A q \in (FirstQuote(t) + 1)..(ClosingQuote(t) - 1) : t[q] \notin {"'", "\""}

\* The words between the first quotation mark and the mark that closes it.
QuotedSpan(t) == SubSeq(t, FirstQuote(t) + 1, ClosingQuote(t) - 1)

C13_AddEventDefaultsToNow ==
    (pc = "sent" /\ HasAdd /\ HasEvent /\ FirstDatePattern(LowerMessage) = 0) =>
        /\ command.action = "add" /\ command.entity = "event"
        /\ reply.command = command
        /\ reply.response.kind \in {"needEventTitle", "eventAdded", "commandFailed"}
        /\ reply.response.kind = "needEventTitle" =>
                (command.title = NoTitle /\ calls = <<>> /\ events = <<>>)
        /\ reply.response.kind # "needEventTitle" =>
                /\ Len(calls) = 1
                /\ calls[1].op = "createEvent"
                /\ calls[1].arg.title = command.title
                /\ calls[1].arg.title # NoTitle
                /\ calls[1].arg.startDate = now
                /\ calls[1].arg.endDate = now
        /\ reply.response.kind = "eventAdded" => events = <<calls[1].arg>>
        /\ reply.response.kind = "commandFailed" => events = <<>>

\* An event with a time and no date: it is created at the moment of the call,
\* not at the time written.
C13_Witness ==
    /\ pc = "sent"
    /\ HasAdd /\ HasEvent /\ FirstDatePattern(LowerMessage) = 0
    /\ parseTime(message) # NullRec
    /\ reply.response.kind = "eventAdded"
    /\ Len(events) = 1
    /\ events[1].startDate = now

\* The row of the event table with the given title (the titles differ).
EventTitled(title) == events[CHOOSE i \in 1..Len(events) : events[i].title = title]

C15_ListedEventsUpcoming ==
    (/\ pc = "sent"
     /\ command.action = "list" /\ command.entity = "event"
     /\ reply.response.kind = "eventList") =>
        \A i \in 1..Len(reply.response.items) :
            ~DateLess(EventTitled(reply.response.items[i].title).startDate, now)

\* C16: the list command on to-dos answers with a list of at most 5 titles,
\* all of to-dos that are not completed, or with the none-found message; when
\* no to-do of the table is left to show, a table of completed to-dos
\* included, the answer is the none-found message and not an empty list.
C16_ListTodosPendingOrNone ==
    (pc = "sent" /\ command.action = "list" /\ command.entity = "todo") =>
        /\ reply.response.kind \in {"noTodos", "todoList"}
        /\ reply.response.kind = "todoList" =>
              /\ Len(reply.response.items) \in 1..5
              /\ \A i \in 1..Len(reply.response.items) :
                    \E x \in 1..Len(todos) :
                        /\ todos[x].title = reply.response.items[i]
                        /\ todos[x].status # "wanryo"
        /\ (\A x \in 1..Len(todos) : todos[x].status = "wanryo") =>
              reply.response.kind = "noTodos"

\* C17: a message with no action keyword, or with an action keyword and no
\* entity keyword, is classified as chat; no store is called and no table
\* changes; the message goes unmodified to the conversational responder, and
\* what the responder answers to it is returned with no command (a static
\* message when the responder fails).
C17_ChatForwardedVerbatim ==
    (/\ pc = "sent"
     /\ \/ ~(HasAdd \/ HasDelete \/ HasList)
        \/ ~(HasEvent \/ HasTodo \/ HasMemo)) =>
        /\ command.action = "chat"
        /\ Len(calls) = 1
        /\ calls[1].op = "converse"
        /\ calls[1].text = message
        /\ events = <<>> /\ todos = <<>> /\ memos = <<>>
        /\ reply.command = NullRec
        /\ reply.response \in { [kind |-> "chat", text |-> message],
                                [kind |-> "modelUnavailable"],
                                [kind |-> "apology"] }

\* "what shall I eat for lunch today?": a list keyword, no entity keyword; the
\* responder's answer to the very message comes back.
C17_Witness ==
    /\ pc = "sent"
    /\ message = <<"o", "neul", " ", "jeom", "sim", " ", "mwo", " ", "meok", "eul", "kka", "?">>
    /\ HasList /\ ~(HasEvent \/ HasTodo \/ HasMemo)
    /\ command.action = "chat"
    /\ calls = <<[op |-> "converse", text |-> message, outcome |-> "ok"]>>
    /\ reply = [response |-> [kind |-> "chat", text |-> message], command |-> NullRec]

\* Whether the call just made began with a create call that put no row into
\* any table: the store refused it.
CreateRefused ==
    /\ pc = "sent"
    /\ calls # <<>>
    /\ calls[1].op \in {"createEvent", "createTodo", "createMemo"}
    /\ events = <<>> /\ todos = <<>> /\ memos = <<>>

\* C18: when the create call of an event, a to-do or a memo is refused, the
\* reply is the one generic failure message, returned with the command as an
\* ordinary value; the create call is the only call made: it is not made
\* again and the message is not sent to the conversational responder.
C18_CreateFailureIsGeneric ==
    CreateRefused =>
        /\ reply.response = [kind |-> "commandFailed"]
        /\ reply.command = command
        /\ Len(calls) = 1

\* A memo whose create call is refused.
C18_Witness ==
    /\ CreateRefused
    /\ calls[1].op = "createMemo"
    /\ reply.response = [kind |-> "commandFailed"]

\* C19: a failing call of the event or to-do store made for a list command is
\* answered by the generic failure message: the none-found message is never
\* the answer while the table holds rows, which is what a failed query would
\* otherwise look like.
C19_ListFailureIsReported ==
    /\ (pc = "sent" /\ command.action = "list" /\ command.entity = "event"
            /\ events # <<>>) =>
          reply.response.kind \in {"eventList", "commandFailed"}
    /\ (pc = "sent" /\ command.action = "list" /\ command.entity = "todo"
            /\ todos # <<>>) =>
          reply.response.kind \in {"todoList", "commandFailed"}

\* The replies that can be displayed: every reply but the empty string.
DisplayKinds ==
    { "needEventTitle", "eventAdded", "needTodoTitle", "todoAdded", "memoSaved",
      "noEvents", "eventList", "noTodos", "todoList", "commandFailed",
      "chat", "modelUnavailable", "apology" }

\* C20: every call of sendMessage returns a reply that can be displayed,
\* whatever the message and whether the store or the conversational
\* responder fails; the responder is called last if at all; when it fails
\* the reply is the model-unavailable message if the error message holds
\* "404" and the apology otherwise, and in both cases no command is returned.
C20_AlwaysReturnsAReply ==
    pc = "sent" =>
        /\ reply.response.kind \in DisplayKinds
        /\ reply.command \in {command, NullRec}
        /\ \A i \in 1..Len(calls) :
              calls[i].op = "converse" =>
                /\ i = Len(calls)
                /\ calls[i].outcome = "ok" =>
                      reply = [response |-> [kind |-> "chat", text |-> message],
                               command |-> NullRec]
                /\ calls[i].outcome = "404" =>
                      reply = [response |-> [kind |-> "modelUnavailable"],
                               command |-> NullRec]
                /\ calls[i].outcome = "error" =>
                      reply = [response |-> [kind |-> "apology"],
                               command |-> NullRec]
        /\ reply.response.kind \in {"chat", "modelUnavailable", "apology"} =>
              (calls # <<>> /\ calls[Len(calls)].op = "converse")

\* A delete command, for which executeCommand returns the empty string, met
\* by a responder that fails with a 404 error.
C20_Witness ==
    /\ pc = "sent"
    /\ command.action = "delete"
    /\ calls # <<>>
    /\ calls[Len(calls)].op = "converse"
    /\ calls[Len(calls)].outcome = "404"
    /\ reply = [response |-> [kind |-> "modelUnavailable"], command |-> NullRec]

C22_UpdateIsClassified ==
    pc = "command" =>
        \E m \in ClassifyMessages : parseCommand(m, now).action = "update"

\* The replies that report a created object.
CreatedKinds == {"eventAdded", "todoAdded", "memoSaved"}

\* The table of the state s that the add command c inserts into.
TableOf(c, s) ==
    CASE TargetTable(c) = "events" -> s.events
      [] TargetTable(c) = "todos" -> s.todos
      [] TargetTable(c) = "memos" -> s.memos

\* C23: when the message of the previous call is sent again and is an add
\* command with a title, a create call is issued again, whatever the table
\* holds; when the store accepts it, its row is appended to the table, and if
\* the previous call created its row at the same clock reading the table ends
\* in two equal rows.
C23_NoDeduplication ==
    [][ (pc = "sent" /\ message' = message /\ TargetTable(command') # Null) =>
            LET before == TableOf(command', [events |-> events, todos |-> todos,
                                             memos |-> memos])
                after  == TableOf(command', [events |-> events', todos |-> todos',
                                             memos |-> memos'])
            IN  /\ Len(calls') = 1
                /\ calls'[1].op \in {"createEvent", "createTodo", "createMemo"}
                /\ reply'.response.kind \in CreatedKinds =>
                      /\ after = Append(before, calls'[1].arg)
                      /\ (reply.response.kind \in CreatedKinds /\ now' = now) =>
                            /\ Len(after) >= 2
                            /\ after[Len(after)] = after[Len(after) - 1]
      ]_vars

\* "by Friday write report to-do add" has been sent twice at the same clock
\* reading and the list holds the same to-do twice.
C23_Witness ==
    /\ pc = "sent"
    /\ message = suggestedCommands[2]
    /\ reply.response.kind = "todoAdded"
    /\ Len(calls) = 1
    /\ calls[1].op = "createTodo"
    /\ Len(todos) = 2
    /\ todos[1] = todos[2]

\* C24: when a message is submitted while an earlier call of sendMessage has
\* not returned, the earlier calls stay pending (nothing is cancelled) and the
\* new message is classified and pending at once (nothing is queued), so that
\* several calls are pending together.
C24_SecondRequestOverlaps ==
    [][ (sent' = sent + 1 /\ requests # {}) =>
            /\ requests \subseteq requests'
            /\ Cardinality(requests') = Cardinality(requests) + 1
            /\ \E r \in requests' \ requests :
                  /\ r.request = sent'
                  /\ r.text = inputMessage
                  /\ r.command = parseCommand(inputMessage, now)
      ]_vars

\* Two calls with "by Friday write report to-do add" are pending together,
\* each with a to-do to create.
C24_Witness ==
    /\ Cardinality(requests) = 2
    /\ \A r \in requests :
          /\ r.text = suggestedCommands[2]
          /\ r.command.action = "add"
          /\ TargetTable(r.command) = "todos"
    /\ todos = <<>>

\* C25: every assistant message of the list that answers a call of
\* sendMessage (every one but the greeting) comes after the user message
\* that made the call.
C25_ReplyFollowsItsMessage ==
    \A i \in 1..Len(messages) :
        (messages[i].role = "assistant" /\ "request" \in DOMAIN messages[i]) =>
            \E j \in 1..(i - 1) :
                /\ messages[j].role = "user"
                /\ messages[j].request = messages[i].request

\* C26: an assistant message is flagged isCommand only if it is the answer
\* of executeCommand to a recognised command; the answer of the
\* conversational responder and the two static messages of sendMessage's
\* catch block, which come with command = null, are not flagged.
C26_FlaggedOnlyForCommands ==
    \A i \in 1..Len(messages) :
        ("isCommand" \in DOMAIN messages[i] /\ messages[i].isCommand) =>
            messages[i].content.kind \notin {"chat", "modelUnavailable", "apology"}

\* C27: each of the four suggested commands of the chat view is classified
\* as add or list with an entity and is answered by executeCommand; the
\* conversational responder is not called for it.
C27_SuggestedCommandsAreHandled ==
    (pc = "sent" /\ \E i \in 1..Len(suggestedCommands) : message = suggestedCommands[i]) =>
        /\ command.action \in {"add", "list"}
        /\ command.entity \in {"event", "todo", "memo"}
        /\ reply.command = command
        /\ \A k \in 1..Len(calls) : calls[k].op # "converse"

\* C28: a month + day expression that names today's month and day resolves
\* to that day of the next year when the call is made after midnight (by a
\* minute or by a millisecond), and to today only at midnight sharp.
C28_TodayRollsOver ==
    (pc = "date" /\ FirstDatePattern(LowerMessage) = 5) =>
        LET g == MonthDayGroups(LowerMessage, monthDayMatch(LowerMessage))
            y == getFullYear(now)
        IN  (g.month = getMonth1(now) /\ g.day = getDate(now)) =>
                /\ (now.min > 0 \/ now.ms > 0) =>
                      /\ dateOut = NewDate(y + 1, g.month - 1, g.day)
                      /\ dateOut.day = now.day + (DaysBeforeYear(y + 1) - DaysBeforeYear(y))
                /\ (now.min = 0 /\ now.ms = 0) => dateOut = now

\* "7 wol 1 il" asked on 1 July 2026, half a second after midnight: 1 July
\* 2027.
C28_Witness ==
    /\ pc = "date"
    /\ FirstDatePattern(LowerMessage) = 5
    /\ Contains(message, <<"7", "wol", " ", "1", "il">>)
    /\ now = [day |-> MakeDay(2026, 6, 1), min |-> 0, ms |-> 500]
    /\ dateOut = NewDate(2027, 6, 1)

\* C29: for every time expression that is matched, the hour is in 0..23 and
\* the minute in 0..59, and writing them into the command's date leaves the
\* calendar day the date resolver chose.
C29_TimeKeepsTheDay ==
    (pc = "command" /\ dateOut # NullRec /\ timeOut # NullRec) =>
        /\ timeOut.hours \in 0..23
        /\ timeOut.minutes \in 0..59
        /\ command.date.day = dateOut.day

\* C30: the to-dos the list command shows are rows the to-do view shows under
\* its pending filter; none of them is in the trash.
C30_TrashedTodosNotListed ==
    (pc = "sent" /\ reply.response.kind = "todoList") =>
        \A k \in 1..Len(reply.response.items) :
            \E i \in 1..Len(filteredTodos(todos, "pending")) :
                filteredTodos(todos, "pending")[i].title = reply.response.items[k]

=============================================================================
